---- MODULE Spec2Model ----
(***************************************************************************)
(* Model of the resource-distribution and dispatch engine of pandoras-box: *)
(*   - Batcher.generateBatches                 (src/runtime/batcher.ts)    *)
(*   - Distributor / TokenDistributor allocator (src/distributor/*.ts)     *)
(*   - fundAccounts over Batcher.batchTransactions / sendTransaction       *)
(*   - Batcher.sendTransactionsInParallelBySender / sendTransactionWithRetry*)
(*   - EOARuntime.ConstructTransactions and senderAccount nonces           *)
(* Each subsystem has its own specification over its own group of          *)
(* variables; the other groups stay at their idle value.                   *)
(***************************************************************************)
EXTENDS Integers, Sequences, FiniteSets, TLC

VARIABLES
    \* ---- Batcher.generateBatches
    gItems, gBatchSize, gResult, gpc,
    \* ---- Distributor / TokenDistributor: scan and greedy allocation
    aMode, aRequired, aDistCost, aBalances, aSource,
    shortAddresses, aReady, distributorBalance, accountsToFund, apc,
    \* ---- Signer.getSenderAccounts / EOARuntime.ConstructTransactions
    nChainCount, nPerAccount, nDynamic, nFeeData,
    nAccounts, nInitial, nTxs, ni, nj, npc, nError,
    \* ---- Batcher.sendTransactionsInParallelBySender
    pTxs, pCur, pRetries, pInflight, pTxHashes, pBatchErrors,
    pPosts, pOutcomes, pResponses, pFailsLeft, ppc,
    \* ---- fundAccounts over Batcher.batchTransactions
    fAccounts, fBatchSize, batches, bCur, bpc, bInflight, txHashes, batchErrors,
    bPosts, bFailed, bResponses, bFailsLeft,
    fSourceCount, fi, fpc, fWaiting, waitErrors, fReady, hReceiptOk,
    \* ---- run(): the phases of one run around distribute / distributeTokens
    rMode, rpc, runAccountIndexes,
    \* ---- a repeated execution of the scan and the allocator
    aRun, aFirstRun,
    \* ---- Signer.getSenderAccounts, one step per loop iteration
    sAccountIndexes, sNumTxs, sTxCount, sAccounts, sQueried, si, spc,
    \* ---- ERC20Runtime / ERC721Runtime: Initialize and the operations on the contract
    tMode, tDriver, contract, tDeploying, tNonce, tNodeCalls, tCalls, tStep, tpc,
    \* ---- earlier pipeline: ConstructTransactions, then Signer.signTransactions
    eAccounts, eInitial, eNumTx, eRaw, eSigned, eCur, eRem, eSignErrors, eFailsLeft, epc,
    \* ---- Distributor.calculateRuntimeCosts
    cTotalTx, cGasPrice, cGasEstimate, cValue, cCosts

genVars   == <<gItems, gBatchSize, gResult, gpc>>
allocVars == <<aMode, aRequired, aDistCost, aBalances, aSource,
               shortAddresses, aReady, distributorBalance, accountsToFund, apc>>
nonceVars == <<nChainCount, nPerAccount, nDynamic, nFeeData,
               nAccounts, nInitial, nTxs, ni, nj, npc, nError>>
parVars   == <<pTxs, pCur, pRetries, pInflight, pTxHashes, pBatchErrors,
               pPosts, pOutcomes, pResponses, pFailsLeft, ppc>>
fundVars  == <<fAccounts, fBatchSize, batches, bCur, bpc, bInflight, txHashes,
               batchErrors, bPosts, bFailed, bResponses, bFailsLeft,
               fSourceCount, fi, fpc, fWaiting, waitErrors, fReady, hReceiptOk>>
runVars   == <<rMode, rpc, runAccountIndexes>>
againVars == <<aRun, aFirstRun>>
prepVars == <<sAccountIndexes, sNumTxs, sTxCount, sAccounts, sQueried, si, spc>>
rtVars == <<tMode, tDriver, contract, tDeploying, tNonce, tNodeCalls, tCalls, tStep, tpc>>
earlierVars == <<eAccounts, eInitial, eNumTx, eRaw, eSigned, eCur, eRem, eSignErrors, eFailsLeft, epc>>
costVars == <<cTotalTx, cGasPrice, cGasEstimate, cValue, cCosts>>
vars      == <<genVars, allocVars, nonceVars, parVars, fundVars, runVars, againVars, prepVars, rtVars, earlierVars, costVars>>

\* what each subsystem leaves alone
notGen   == <<allocVars, nonceVars, parVars, fundVars, runVars, againVars, prepVars, rtVars, earlierVars, costVars>>
notAlloc == <<genVars, nonceVars, parVars, fundVars, runVars, againVars, prepVars, rtVars, earlierVars, costVars>>
notNonce == <<genVars, allocVars, parVars, fundVars, runVars, againVars, prepVars, rtVars, earlierVars, costVars>>
notPar   == <<genVars, allocVars, nonceVars, fundVars, runVars, againVars, prepVars, rtVars, earlierVars, costVars>>
notFund  == <<genVars, allocVars, nonceVars, parVars, runVars, againVars, prepVars, rtVars, earlierVars, costVars>>

----------------------------------------------------------------------------
\* Bounds of the model
MaxItems == 45
MaxBatchSize == 20
MaxSubAccounts == 3

----------------------------------------------------------------------------
\* Generic helpers
Range(s) == {s[i] : i \in 1..Len(s)}

RECURSIVE Flatten(_)
Flatten(ss) == IF ss = <<>> THEN <<>> ELSE Head(ss) \o Flatten(Tail(ss))

Iota(n) == [i \in 1..n |-> i]

RECURSIVE SumTxs(_, _)
SumTxs(f, n) == IF n = 0 THEN 0 ELSE f[n] + SumTxs(f, n - 1)

----------------------------------------------------------------------------
(***************************************************************************)
(* Batcher.generateBatches(items, batchSize)                               *)
(***************************************************************************)

\* Math.ceil(items.length / batchSize) in IEEE arithmetic: n/0 is Infinity
\* for n > 0 and 0/0 is NaN; NaN == 0 is false, so only a true 0 becomes 1.
numBatchesOf(n, batchSize) ==
    IF batchSize = 0
    THEN IF n = 0 THEN [kind |-> "NaN", val |-> 0]
                  ELSE [kind |-> "Infinity", val |-> 0]
    ELSE LET c == (n + batchSize - 1) \div batchSize
         IN  [kind |-> "num", val |-> IF c = 0 THEN 1 ELSE c]

\* for (const item of items) { batches[currentBatch].push(item);
\*   if (batches[currentBatch].length % batchSize == 0) currentBatch++; }
\* currentBatch is 1-based here.  x % 0 is NaN, and NaN == 0 is false.
RECURSIVE fillBatches(_, _, _, _)
fillBatches(items, batchSize, bs, currentBatch) ==
    IF items = <<>> THEN [outcome |-> "returns", batches |-> bs]
    ELSE IF currentBatch > Len(bs)
    THEN [outcome |-> "throws", batches |-> bs]
    ELSE LET grown == [bs EXCEPT ![currentBatch] = Append(@, Head(items))]
             full  == batchSize # 0 /\ Len(grown[currentBatch]) % batchSize = 0
         IN  fillBatches(Tail(items), batchSize, grown,
                         IF full THEN currentBatch + 1 ELSE currentBatch)

\* The loop "for (i = 0; i < numBatches; i++) batches[i] = []" never ends when
\* numBatches is Infinity and runs zero times when it is NaN.
generateBatches(items, batchSize) ==
    LET nb == numBatchesOf(Len(items), batchSize)
    IN  IF nb.kind = "Infinity" THEN [outcome |-> "diverges", batches |-> <<>>]
        ELSE fillBatches(items, batchSize,
                         [i \in 1..(IF nb.kind = "NaN" THEN 0 ELSE nb.val) |-> <<>>],
                         1)

GenInit ==
    /\ gItems \in {Iota(n) : n \in 0..MaxItems}
    /\ gBatchSize \in 0..MaxBatchSize
    /\ gResult = [outcome |-> "none", batches |-> <<>>]
    /\ gpc = "call"

GenIdle ==
    /\ gItems = <<>>
    /\ gBatchSize = 1
    /\ gResult = [outcome |-> "none", batches |-> <<>>]
    /\ gpc = "idle"

CallGenerateBatches ==
    /\ gpc = "call"
    /\ gResult' = generateBatches(gItems, gBatchSize)
    /\ gpc' = "called"
    /\ UNCHANGED <<gItems, gBatchSize>>
    /\ UNCHANGED notGen

----------------------------------------------------------------------------
(***************************************************************************)
(* Distributor / TokenDistributor: shortfall scan and greedy allocation.   *)
(* Amounts are in abstract units.                                          *)
(***************************************************************************)
BalanceValues  == {0, 50, 150}
SourceValues   == {0, 20, 60, 120, 300}
RequiredValues == {50, 100}
DistCostValues == {10, 21}

\* new distributeAccount(missingFunds, address, index); the address is the
\* one derived from the index, so the index stands for both.
distributeAccount(missingFunds, index) ==
    [missingFunds |-> missingFunds, mnemonicIndex |-> index]

\* a comparator whose answer is not a function of its two arguments: it
\* ties in one execution and orders by missing funds in the next
defaultCmpByRun(x, y) == IF aRun = 1 THEN 0 ELSE x.missingFunds - y.missingFunds

\* new Heap<distributeAccount>() has no comparator: the heap package then
\* compares with x < y / x > y, which for two plain objects compares
\* "[object Object]" with itself, so every comparison yields 0.
defaultCmp(x, y) == 0

\* Heap.push: append, then _siftdown(array, 0, last): the new item moves up
\* while cmp(newitem, parent) < 0.
RECURSIVE siftdown(_, _, _, _)
siftdown(array, startpos, pos, newitem) ==
    IF pos > startpos
    THEN LET parentpos == (pos - 1) \div 2
             parent    == array[parentpos + 1]
         IN  IF defaultCmp(newitem, parent) < 0
             THEN siftdown([array EXCEPT ![pos + 1] = parent], startpos, parentpos, newitem)
             ELSE [array EXCEPT ![pos + 1] = newitem]
    ELSE [array EXCEPT ![pos + 1] = newitem]

heapPush(array, item) ==
    LET a == Append(array, item)
    IN  siftdown(a, 0, Len(a) - 1, item)

\* _siftup(array, pos): bubble the smaller child up until a leaf is hit,
\* then sift the displaced item down (positions are 0-based as in the code).
RECURSIVE siftupLoop(_, _, _)
siftupLoop(array, pos, newitem) ==
    LET endpos   == Len(array)
        leftpos  == 2 * pos + 1
        rightpos == leftpos + 1
        childpos == IF rightpos < endpos
                       /\ ~(defaultCmp(array[leftpos + 1], array[rightpos + 1]) < 0)
                    THEN rightpos ELSE leftpos
    IN  IF leftpos < endpos
        THEN siftupLoop([array EXCEPT ![pos + 1] = array[childpos + 1]], childpos, newitem)
        ELSE siftdown([array EXCEPT ![pos + 1] = newitem], 0, pos, newitem)

\* a pop that hands out the root and leaves it on the heap
heapPopKeeps(array) == [item |-> array[1], heap |-> array]

\* Heap.pop: lastelt = array.pop(); if the array is not empty the root is
\* returned and lastelt sifted in from the root.
heapPop(array) ==
    LET lastelt == array[Len(array)]
        rest    == SubSeq(array, 1, Len(array) - 1)
    IN  IF rest = <<>>
        THEN [item |-> lastelt, heap |-> rest]
        ELSE [item |-> rest[1],
              heap |-> siftupLoop([rest EXCEPT ![1] = lastelt], 0, lastelt)]

\* the scan without the `continue` after the push: a short account falls
\* through and is marked ready as well
RECURSIVE scanNativeNoContinue(_, _, _, _, _)
scanNativeNoContinue(i, n, singleRunCost, heap, ready) ==
    IF i > n THEN [heap |-> heap, ready |-> ready]
    ELSE scanNativeNoContinue(i + 1, n, singleRunCost,
             IF aBalances[i] < singleRunCost
             THEN heapPush(heap, distributeAccount(singleRunCost - aBalances[i], i))
             ELSE heap,
             Append(ready, i))

\* Distributor.findAccountsForDistribution: for i = 1..requestedSubAccounts.
RECURSIVE scanNative(_, _, _, _, _)
scanNative(i, n, singleRunCost, heap, ready) ==
    IF i > n THEN [heap |-> heap, ready |-> ready]
    ELSE IF aBalances[i] < singleRunCost
    THEN scanNative(i + 1, n, singleRunCost,
                    heapPush(heap, distributeAccount(singleRunCost - aBalances[i], i)),
                    ready)
    ELSE scanNative(i + 1, n, singleRunCost, heap, Append(ready, i))

\* TokenDistributor.findAccountsForDistribution: for index of
\* readyMnemonicIndexes; the ready list itself is not touched by the scan.
RECURSIVE scanToken(_, _, _)
scanToken(candidates, singleRunCost, heap) ==
    IF candidates = <<>> THEN heap
    ELSE LET index == Head(candidates)
         IN  scanToken(Tail(candidates), singleRunCost,
                 IF aBalances[index] < singleRunCost
                 THEN heapPush(heap, distributeAccount(singleRunCost - aBalances[index], index))
                 ELSE heap)

\* a token allocator that goes on while the tracked balance is positive
allocThresholdZero == IF aMode = "native" THEN aDistCost ELSE 0

\* The loop guard of getFundableAccounts:
\*   native: distributorBalance.gt(costs.accDistributionCost) && size > 0
\*   token : distributorBalance > costs.subAccount && size > 0
allocThreshold == IF aMode = "native" THEN aDistCost ELSE aRequired

\* a guard that also goes on when the balance equals the threshold
allocGuardNotStrict(balance, heap) == balance >= allocThreshold /\ Len(heap) > 0

allocGuard(balance, heap) == balance > allocThreshold /\ Len(heap) > 0

\* the state before the scan, with at most maxAccounts candidate accounts
allocInit(maxAccounts) ==
    /\ aMode \in {"native", "token"}
    /\ aRequired \in RequiredValues
    /\ aDistCost \in DistCostValues
    /\ \E n \in 1..maxAccounts : aBalances \in [1..n -> BalanceValues]
    /\ aSource \in SourceValues
    /\ shortAddresses = <<>>
    \* the token distributor is constructed with the native ready list
    /\ aReady = IF aMode = "token" THEN Iota(Len(aBalances)) ELSE <<>>
    /\ distributorBalance = 0
    /\ accountsToFund = <<>>
    /\ apc = "scan"

AllocInit == allocInit(MaxSubAccounts)

AllocIdle ==
    /\ aMode = "native"
    /\ aRequired = 0
    /\ aDistCost = 0
    /\ aBalances = <<>>
    /\ aSource = 0
    /\ shortAddresses = <<>>
    /\ aReady = <<>>
    /\ distributorBalance = 0
    /\ accountsToFund = <<>>
    /\ apc = "idle"

\* distribute / distributeTokens: the shortfall scan
FindAccountsForDistribution ==
    /\ apc = "scan"
    /\ IF aMode = "native"
       THEN LET r == scanNative(1, Len(aBalances), aRequired, <<>>, aReady)
            IN  /\ shortAddresses' = r.heap
                /\ aReady' = r.ready
       ELSE /\ shortAddresses' = scanToken(aReady, aRequired, <<>>)
            /\ aReady' = aReady
    /\ apc' = "scanned"
    /\ UNCHANGED <<aMode, aRequired, aDistCost, aBalances, aSource,
                   distributorBalance, accountsToFund>>
    /\ UNCHANGED notAlloc

\* a distribute that goes on to the allocator whatever the scan found
nothingToDistributeIgnored(heap) == FALSE

\* const initialAccCount = shortAddresses.size(); if (initialAccCount == 0)
nothingToDistribute(heap) == Len(heap) = 0

\* initialAccCount == 0: nothing to distribute
ReturnFullyFunded ==
    /\ apc = "scanned"
    /\ nothingToDistribute(shortAddresses)
    /\ apc' = "fullyFunded"
    /\ UNCHANGED <<aMode, aRequired, aDistCost, aBalances, aSource,
                   shortAddresses, aReady, distributorBalance, accountsToFund>>
    /\ UNCHANGED notAlloc

\* getFundableAccounts: read the source balance
ReadDistributorBalance ==
    /\ apc = "scanned"
    /\ ~nothingToDistribute(shortAddresses)
    /\ distributorBalance' = aSource
    /\ apc' = "alloc"
    /\ UNCHANGED <<aMode, aRequired, aDistCost, aBalances, aSource,
                   shortAddresses, aReady, accountsToFund>>
    /\ UNCHANGED notAlloc

\* one iteration of the while loop of getFundableAccounts
AllocateOne ==
    /\ apc = "alloc"
    /\ allocGuard(distributorBalance, shortAddresses)
    /\ LET p == heapPop(shortAddresses)
       IN  /\ shortAddresses' = p.heap
           /\ distributorBalance' = distributorBalance - p.item.missingFunds
           /\ accountsToFund' = Append(accountsToFund, p.item)
    /\ UNCHANGED <<aMode, aRequired, aDistCost, aBalances, aSource, aReady, apc>>
    /\ UNCHANGED notAlloc

\* an allocator that returns the empty list instead of throwing
allocOutcomeNoThrow(accounts) == "allocated"

\* if (accountsToFund.length == 0) throw DistributorErrors.errNotEnoughFunds;
\* return accountsToFund
allocOutcome(accounts) ==
    IF Len(accounts) = 0 THEN "errNotEnoughFunds" ELSE "allocated"

\* loop exit: throw errNotEnoughFunds or return accountsToFund
AllocateStop ==
    /\ apc = "alloc"
    /\ ~allocGuard(distributorBalance, shortAddresses)
    /\ apc' = allocOutcome(accountsToFund)
    /\ UNCHANGED <<aMode, aRequired, aDistCost, aBalances, aSource,
                   shortAddresses, aReady, distributorBalance, accountsToFund>>
    /\ UNCHANGED notAlloc

\* const initialAccCount = shortAddresses.size(), read before the allocator
\* runs; the allocator only moves entries from the heap to its result, so
\* afterwards it is what is left plus what was taken
initialAccCount == Len(shortAddresses) + Len(accountsToFund)

\* if (fundableAccounts.length != initialAccCount)
\*     Logger.warn(`Unable to fund all sub-accounts. ...`)
warnsUnableToFundAll == Len(accountsToFund) # initialAccCount

NextAlloc ==
    \/ FindAccountsForDistribution
    \/ ReturnFullyFunded
    \/ ReadDistributorBalance
    \/ AllocateOne
    \/ AllocateStop

----------------------------------------------------------------------------
(***************************************************************************)
(* Signer.getSenderAccounts, senderAccount and                             *)
(* EOARuntime.ConstructTransactions / createTransferTransaction.           *)
(* A sender account is [mnemonicIndex, nonce]; its address is the one      *)
(* derived from the index.  A signed transaction keeps the fields the      *)
(* request was built with.                                                 *)
(***************************************************************************)
MaxSenders == 3
MaxTxPerAccount == 3
MaxChainNonce == 2

\* new senderAccount(mnemonicIndex, nonce, wallet)
senderAccount(mnemonicIndex, nonce) ==
    [mnemonicIndex |-> mnemonicIndex, nonce |-> nonce]

\* senderAccount.getNonce
getNonce(acc) == acc.nonce

\* a nonce that is not advanced
incrNonceLost(acc) == acc

\* senderAccount.incrNonce: this.nonce++
incrNonce(acc) == [acc EXCEPT !.nonce = @ + 1]

\* a wallet for every index, whatever the number of transactions
walletsToInitAll(accountIndexes, numTxs) == Len(accountIndexes)

\* const walletsToInit =
\*     accountIndexes.length > numTxs ? numTxs : accountIndexes.length
walletsToInit(accountIndexes, numTxs) ==
    IF Len(accountIndexes) > numTxs THEN numTxs ELSE Len(accountIndexes)

\* Signer.getSenderAccounts(accountIndexes, numTxs): the first
\* min(length, numTxs) indexes, each with the transaction count read from
\* the node as its nonce.
getSenderAccounts(accountIndexes, numTxs) ==
    [i \in 1..walletsToInit(accountIndexes, numTxs) |->
        senderAccount(accountIndexes[i], nChainCount[accountIndexes[i]])]

\* this.feeData.maxFeePerGas / maxPriorityFeePerGas as getFeeData left them:
\* set, or not available.  FeeData declares the fields "null | BigNumber" and
\* the provider reports a fee it cannot compute as null; "undefined" is a
\* snapshot without the fields (or one never taken).
FeeDataValues == {"set", "null", "undefined"}

\* the check of createTransferTransaction in dynamic mode:
\* maxFeePerGas === undefined || maxPriorityFeePerGas === undefined
feeDataMissing == nDynamic /\ nFeeData = "undefined"

\* the check passes on null; BigNumber.from(null) of the next line throws
feeDataNull == nDynamic /\ nFeeData = "null"

\* the error createTransferTransaction ends with in dynamic mode
constructError ==
    IF feeDataMissing THEN "Dynamic fee data not available"
    ELSE "invalid BigNumber value"

\* a failed signTransaction that still consumes the nonce
nonceAfterFailedSignConsumed(acc) == [acc EXCEPT !.nonce = @ + 1]

\* txs.push(await sender.wallet.signTransaction(...)) rejects: the exception
\* leaves the loop before sender.incrNonce()
nonceAfterFailedSign(acc) == acc

\* EOARuntime.createTransferTransaction(sender, receiver, gasPrice, dynamic)
createTransferTransaction(sender, receiver) ==
    [from  |-> sender.mnemonicIndex,
     to    |-> receiver.mnemonicIndex,
     nonce |-> getNonce(sender),
     type  |-> IF nDynamic THEN 2 ELSE 0]

NonceInit ==
    /\ \E n \in 1..MaxSenders : nChainCount \in [1..n -> 0..MaxChainNonce]
    /\ nPerAccount \in 0..MaxTxPerAccount
    /\ nDynamic \in BOOLEAN
    /\ nFeeData \in FeeDataValues
    /\ nAccounts = <<>>
    /\ nInitial = <<>>
    /\ nTxs = <<>>
    /\ ni = 1
    /\ nj = 0
    /\ npc = "prepare"
    /\ nError = "none"

NonceIdle ==
    /\ nChainCount = <<>>
    /\ nPerAccount = 0
    /\ nDynamic = FALSE
    /\ nFeeData = "set"
    /\ nAccounts = <<>>
    /\ nInitial = <<>>
    /\ nTxs = <<>>
    /\ ni = 1
    /\ nj = 0
    /\ npc = "idle"
    /\ nError = "none"

\* Engine.Run: getSenderAccounts(ctx.accountIndexes, totalNumOfTxs) with
\* totalNumOfTxs = accountIndexes.length * numOfTxPerAccount
PrepareSenders ==
    /\ npc = "prepare"
    /\ LET idx  == Iota(Len(nChainCount))
           accs == getSenderAccounts(idx, Len(idx) * nPerAccount)
       IN  /\ nAccounts' = accs
           /\ nInitial' = [i \in 1..Len(accs) |-> accs[i].nonce]
           /\ nTxs' = [i \in 1..Len(accs) |-> <<>>]
    /\ ni' = 1
    /\ nj' = 0
    /\ npc' = "construct"
    /\ UNCHANGED <<nChainCount, nPerAccount, nDynamic, nFeeData, nError>>
    /\ UNCHANGED notNonce

\* one pass of the inner loop of ConstructTransactions: build, sign, then
\* sender.incrNonce()
ConstructOne ==
    /\ npc = "construct"
    /\ ni <= Len(nAccounts)
    /\ nj < nPerAccount
    /\ ~feeDataMissing /\ ~feeDataNull
    /\ LET sender   == nAccounts[ni]
           receiver == nAccounts[((ni - 1 + nj) % Len(nAccounts)) + 1]
       IN  /\ nTxs' = [nTxs EXCEPT ![ni] = Append(@, createTransferTransaction(sender, receiver))]
           /\ nAccounts' = [nAccounts EXCEPT ![ni] = incrNonce(sender)]
    /\ nj' = nj + 1
    /\ UNCHANGED <<nChainCount, nPerAccount, nDynamic, nFeeData, nInitial, ni, npc, nError>>
    /\ UNCHANGED notNonce

\* createTransferTransaction throws: 'Dynamic fee data not available', or
\* the error of BigNumber.from on a null fee
ConstructThrows ==
    /\ npc = "construct"
    /\ ni <= Len(nAccounts)
    /\ nj < nPerAccount
    /\ feeDataMissing \/ feeDataNull
    /\ npc' = "error"
    /\ nError' = constructError
    /\ UNCHANGED <<nChainCount, nPerAccount, nDynamic, nFeeData,
                   nAccounts, nInitial, nTxs, ni, nj>>
    /\ UNCHANGED notNonce

\* the transaction is built but sender.wallet.signTransaction rejects
ConstructSignFails ==
    /\ npc = "construct"
    /\ ni <= Len(nAccounts)
    /\ nj < nPerAccount
    /\ ~feeDataMissing /\ ~feeDataNull
    /\ nAccounts' = [nAccounts EXCEPT ![ni] = nonceAfterFailedSign(@)]
    /\ npc' = "error"
    /\ nError' = "signTransaction rejected"
    /\ UNCHANGED <<nChainCount, nPerAccount, nDynamic, nFeeData,
                   nInitial, nTxs, ni, nj>>
    /\ UNCHANGED notNonce

\* inner loop finished: transactions.set(sender.getAddress(), txs); i++
NextSender ==
    /\ npc = "construct"
    /\ ni <= Len(nAccounts)
    /\ nj >= nPerAccount
    /\ ni' = ni + 1
    /\ nj' = 0
    /\ UNCHANGED <<nChainCount, nPerAccount, nDynamic, nFeeData,
                   nAccounts, nInitial, nTxs, npc, nError>>
    /\ UNCHANGED notNonce

\* outer loop finished: return transactions
ConstructReturn ==
    /\ npc = "construct"
    /\ ni > Len(nAccounts)
    /\ npc' = "constructed"
    /\ UNCHANGED <<nChainCount, nPerAccount, nDynamic, nFeeData,
                   nAccounts, nInitial, nTxs, ni, nj, nError>>
    /\ UNCHANGED notNonce

NextNonce ==
    \/ PrepareSenders
    \/ ConstructOne
    \/ ConstructThrows
    \/ ConstructSignFails
    \/ NextSender
    \/ ConstructReturn

----------------------------------------------------------------------------
(***************************************************************************)
(* Signer.getSenderAccounts followed through its loop: every iteration     *)
(* awaits wallet.getTransactionCount() of one index.  sQueried is the list *)
(* of indexes whose transaction count has been asked of the node.          *)
(***************************************************************************)
MaxPrepareIndexes == 3
MaxPrepareTxs == 4
MaxPrepareNonce == 1

\* the lists of distinct indexes of 1..n, in any order
DistinctSeqs(n) ==
    UNION {{q \in [1..k -> 1..n] : \A a, b \in 1..k : a # b => q[a] # q[b]} : k \in 0..n}

PrepInit ==
    /\ sAccountIndexes \in DistinctSeqs(MaxPrepareIndexes)
    /\ sNumTxs \in 0..MaxPrepareTxs
    /\ sTxCount \in [1..MaxPrepareIndexes -> 0..MaxPrepareNonce]
    /\ sAccounts = <<>>
    /\ sQueried = <<>>
    /\ si = 0
    /\ spc = "loop"

PrepIdle ==
    /\ sAccountIndexes = <<>>
    /\ sNumTxs = 0
    /\ sTxCount = <<>>
    /\ sAccounts = <<>>
    /\ sQueried = <<>>
    /\ si = 0
    /\ spc = "idle"

notPrep == <<genVars, allocVars, nonceVars, parVars, fundVars, runVars, againVars, rtVars, earlierVars, costVars>>

\* one iteration: accIndex = accountIndexes[i]; the transaction count of its
\* wallet is read; accounts.push(new senderAccount(accIndex, accountNonce, wallet))
SenderAccountStep ==
    /\ spc = "loop"
    /\ si < walletsToInit(sAccountIndexes, sNumTxs)
    /\ LET accIndex == sAccountIndexes[si + 1]
       IN  /\ sQueried' = Append(sQueried, accIndex)
           /\ sAccounts' = Append(sAccounts, senderAccount(accIndex, sTxCount[accIndex]))
    /\ si' = si + 1
    /\ UNCHANGED <<sAccountIndexes, sNumTxs, sTxCount, spc>>
    /\ UNCHANGED notPrep

\* the same iteration when getTransactionCount rejects: getSenderAccounts
\* rejects with it
SenderAccountQueryFails ==
    /\ spc = "loop"
    /\ si < walletsToInit(sAccountIndexes, sNumTxs)
    /\ sQueried' = Append(sQueried, sAccountIndexes[si + 1])
    /\ spc' = "threw"
    /\ UNCHANGED <<sAccountIndexes, sNumTxs, sTxCount, sAccounts, si>>
    /\ UNCHANGED notPrep

\* i < walletsToInit fails: return accounts
SenderAccountsReturn ==
    /\ spc = "loop"
    /\ ~(si < walletsToInit(sAccountIndexes, sNumTxs))
    /\ spc' = "returned"
    /\ UNCHANGED <<sAccountIndexes, sNumTxs, sTxCount, sAccounts, sQueried, si>>
    /\ UNCHANGED notPrep

NextPrep ==
    \/ SenderAccountStep
    \/ SenderAccountQueryFails
    \/ SenderAccountsReturn

----------------------------------------------------------------------------
(***************************************************************************)
(* Batcher.sendTransactionsInParallelBySender and sendTransactionWithRetry.*)
(* One task per sender; a request is [sender, k, attempt] for the sender's *)
(* k-th transaction.  Each action is one event-loop turn: the callback of  *)
(* a settled POST together with everything the task does before its next   *)
(* await.  The node answers a batch call with one element per request      *)
(* element, either {result} or {error}.                                    *)
(***************************************************************************)
MaxParSenders == 2
MaxParTotal == 3
MaxParFails == 3

\* the maxRetries argument of sendTransactionWithRetry at its call site
maxRetries == 3

\* an append that is not atomic: the array is written back from a copy taken
\* before another task appended, so earlier entries are lost
recordContentWithRetryLost(content, hashes, errors) ==
    [txHashes |-> [i \in 1..Len(content) |-> content[i].tx], batchErrors |-> errors]

\* sendTransactionWithRetry, lines 214-222:
\* for (const cnt of content) { if (cnt.hasOwnProperty('error')) {
\*   batchErrors.push(cnt.error.message); continue; } txHashes.push(cnt.result); }
RECURSIVE recordContentWithRetry(_, _, _)
recordContentWithRetry(content, hashes, errors) ==
    IF content = <<>> THEN [txHashes |-> hashes, batchErrors |-> errors]
    ELSE LET cnt == Head(content)
         IN  IF cnt.error
             THEN recordContentWithRetry(Tail(content), hashes,
                                         Append(errors, [message |-> cnt.tx]))
             ELSE recordContentWithRetry(Tail(content), Append(hashes, cnt.tx), errors)

parRequest(s, k, attempt) == [sender |-> s, k |-> k, attempt |-> attempt]

\* a task that POSTs its whole list without awaiting each send
taskStartRequestsUnawaited(s) ==
    {parRequest(s, k, 1) : k \in 1..pTxs[s]}

\* the body of the per-sender task up to its first await: the POST of the
\* first transaction of the list, if there is one
taskStartRequests(s) ==
    IF pTxs[s] > 0 THEN {parRequest(s, 1, 1)} ELSE {}

\* "for (const tx of txs)" after the await of transaction k has returned:
\* the POST of transaction k+1, if there is one
taskNextRequests(s, k) ==
    IF k + 1 <= pTxs[s] THEN {parRequest(s, k + 1, 1)} ELSE {}

\* a send that throws once its retries are used up: the task ends there
afterMaxRetriesThrows(s, k) == {}

\* sendTransactionWithRetry leaves its loop after maxRetries failures, logs
\* 'Max retries reached. Failed to send transaction.' and returns: the task
\* goes on with "for (const tx of txs)"
afterMaxRetries(s, k) == taskNextRequests(s, k)

\* an off-by-one loop test: one POST more than maxRetries
retryAgainOffByOne(retries) == retries + 1 <= maxRetries

\* catch { retries++ } and the loop test "retries < maxRetries" of
\* sendTransactionWithRetry: TRUE when the same payload is POSTed again
retryAgain(retries) == retries + 1 < maxRetries

ParSenders == DOMAIN pTxs

\* the transactions a set of requests of one sender POSTs, in list order
RECURSIVE postLog(_)
postLog(reqs) ==
    IF reqs = {} THEN <<>>
    ELSE LET r == CHOOSE q \in reqs : \A o \in reqs : q.k <= o.k
         IN  <<r.k>> \o postLog(reqs \ {r})

\* the call with at most fails transport failures to come
parInit(fails) ==
    /\ \E n \in 1..MaxParSenders :
         /\ pTxs \in [1..n -> 0..MaxParTotal]
         /\ SumTxs(pTxs, n) <= MaxParTotal
    /\ pCur = [s \in DOMAIN pTxs |-> 1]
    /\ pRetries = [s \in DOMAIN pTxs |-> 0]
    /\ pInflight = {}
    /\ pTxHashes = <<>>
    /\ pBatchErrors = <<>>
    /\ pPosts = [s \in DOMAIN pTxs |-> <<>>]
    /\ pOutcomes = [s \in DOMAIN pTxs |-> [k \in 1..pTxs[s] |-> <<>>]]
    /\ pResponses = <<>>
    /\ pFailsLeft = fails
    /\ ppc = "start"

ParInit == parInit(MaxParFails)

\* the call where every POST may fail: one failure in hand for each of the
\* maxRetries attempts of each transaction
ParInitAnyFailure == parInit(maxRetries * MaxParTotal)

ParIdle ==
    /\ pTxs = <<>>
    /\ pCur = <<>>
    /\ pRetries = <<>>
    /\ pInflight = {}
    /\ pTxHashes = <<>>
    /\ pBatchErrors = <<>>
    /\ pPosts = <<>>
    /\ pOutcomes = <<>>
    /\ pResponses = <<>>
    /\ pFailsLeft = 0
    /\ ppc = "idle"

\* Promise.all resolves once every per-sender task has run off its list
parFinished(cur) == \A s \in ParSenders : cur[s] > pTxs[s]

\* Promise.all(entries.map(async ...)): every task runs up to its first await
StartParallel ==
    /\ ppc = "start"
    /\ pInflight' = UNION {taskStartRequests(s) : s \in ParSenders}
    /\ pPosts' = [s \in ParSenders |-> postLog(taskStartRequests(s))]
    /\ ppc' = IF parFinished(pCur) THEN "returned" ELSE "running"
    /\ UNCHANGED <<pTxs, pCur, pRetries, pTxHashes, pBatchErrors, pOutcomes,
                   pResponses, pFailsLeft>>
    /\ UNCHANGED notPar

\* the POST of req is answered: record the element, return, go on with the
\* sender's next transaction
ParResponse(req, isError) ==
    /\ ppc = "running"
    /\ req \in pInflight
    /\ LET s    == req.sender
           content == <<[tx |-> <<s, req.k>>, error |-> isError]>>
           rec  == recordContentWithRetry(content, pTxHashes, pBatchErrors)
           more == taskNextRequests(s, req.k)
           cur  == [pCur EXCEPT ![s] = req.k + 1]
       IN  /\ pTxHashes' = rec.txHashes
           /\ pBatchErrors' = rec.batchErrors
           /\ pOutcomes' = [pOutcomes EXCEPT ![s][req.k] = Append(@, "response")]
           /\ pResponses' = pResponses \o content
           /\ pInflight' = (pInflight \ {req}) \cup more
           /\ pPosts' = [pPosts EXCEPT ![s] = @ \o postLog(more)]
           /\ pCur' = cur
           /\ pRetries' = [pRetries EXCEPT ![s] = 0]
           /\ ppc' = IF parFinished(cur) THEN "returned" ELSE "running"
    /\ UNCHANGED <<pTxs, pFailsLeft>>
    /\ UNCHANGED notPar

\* the POST of req fails in transport: retries++, then either the same
\* payload again or 'Max retries reached' and on to the next transaction
ParTransportFailure(req) ==
    /\ ppc = "running"
    /\ req \in pInflight
    /\ pFailsLeft > 0
    /\ pFailsLeft' = pFailsLeft - 1
    /\ LET s     == req.sender
           again == retryAgain(pRetries[s])
           more  == IF again THEN {parRequest(s, req.k, req.attempt + 1)}
                    ELSE afterMaxRetries(s, req.k)
           cur   == IF again THEN pCur ELSE [pCur EXCEPT ![s] = req.k + 1]
       IN  /\ pOutcomes' = [pOutcomes EXCEPT ![s][req.k] = Append(@, "failure")]
           /\ pInflight' = (pInflight \ {req}) \cup more
           /\ pPosts' = [pPosts EXCEPT ![s] = @ \o postLog(more)]
           /\ pCur' = cur
           /\ pRetries' = [pRetries EXCEPT ![s] = IF again THEN @ + 1 ELSE 0]
           /\ ppc' = IF parFinished(cur) THEN "returned" ELSE "running"
    /\ UNCHANGED <<pTxs, pTxHashes, pBatchErrors, pResponses>>
    /\ UNCHANGED notPar

\* Engine.Run returns what the dispatch call returns: return txHashes, the
\* one array every per-sender task pushes to as its responses arrive
engineResult == pTxHashes

NextPar ==
    \/ StartParallel
    \/ \E req \in pInflight, isError \in BOOLEAN : ParResponse(req, isError)
    \/ \E req \in pInflight : ParTransportFailure(req)

----------------------------------------------------------------------------
(***************************************************************************)
(* Distributor.fundAccounts / TokenDistributor.fundAccounts over           *)
(* Batcher.batchTransactions and Batcher.sendTransaction.                  *)
(* A funding transaction is [to, value, nonce]; the identifier the node    *)
(* returns for it stands for the transaction itself.  A request is         *)
(* [grp, attempt, awaited, payload]; awaited says whether the loop of      *)
(* batchTransactions is suspended on its completion.  Each action is one   *)
(* event-loop turn.                                                        *)
(***************************************************************************)
MaxFundAccounts == 3
MaxFundBatch == 2
MaxFundFails == 3
\* the transaction count of the source account when fundAccounts reads it
SourceTxCount == 1

ReceiptOutcomes == {"success", "failed", "null", "timeout"}

\* a loop that stops at the first error element (break instead of continue)
RECURSIVE recordContentBreak(_, _, _)
recordContentBreak(content, hashes, errors) ==
    IF content = <<>> THEN [txHashes |-> hashes, batchErrors |-> errors]
    ELSE LET cnt == Head(content)
         IN  IF cnt.error
             THEN [txHashes |-> hashes,
                   batchErrors |-> Append(errors, [message |-> cnt.tx])]
             ELSE recordContentBreak(Tail(content), Append(hashes, cnt.tx), errors)

\* sendTransaction, lines 181-191:
\* for (const cnt of content) { if (cnt.hasOwnProperty('error')) {
\*   batchErrors.push(cnt.error.message); continue; } txHashes.push(cnt.result); }
RECURSIVE recordContent(_, _, _)
recordContent(content, hashes, errors) ==
    IF content = <<>> THEN [txHashes |-> hashes, batchErrors |-> errors]
    ELSE LET cnt == Head(content)
         IN  IF cnt.error
             THEN recordContent(Tail(content), hashes, Append(errors, [message |-> cnt.tx]))
             ELSE recordContent(Tail(content), Append(hashes, cnt.tx), errors)

\* the signing loop with the nonce++ left out
signFundingTxsSameNonce(accounts, nonce) ==
    [j \in 1..Len(accounts) |->
        [from |-> 0,
         to |-> accounts[j].mnemonicIndex,
         value |-> accounts[j].missingFunds,
         nonce |-> nonce]]

\* fundAccounts: one transaction per account, signed by the wallet of
\* mnemonic index 0, value = missingFunds, nonce counted up from the source's
\* transaction count.  For tokens the transaction is the contract call
\* transfer(acc.address, missingFunds): to and value are then the recipient
\* and the amount of that transfer.
signFundingTxs(accounts, nonce) ==
    [j \in 1..Len(accounts) |->
        [from |-> 0,
         to |-> accounts[j].mnemonicIndex,
         value |-> accounts[j].missingFunds,
         nonce |-> nonce + j - 1]]

\* batchTransactions: the JSON-RPC batch of group g, ids from nextIndx++
batchPayload(bs, g) ==
    LET nextIndx == Len(Flatten(SubSeq(bs, 1, g - 1)))
    IN  [i \in 1..Len(bs[g]) |-> [params |-> bs[g][i], id |-> nextIndx + i - 1]]

groupRequest(bs, g) ==
    [grp |-> g, attempt |-> 1, awaited |-> TRUE, payload |-> batchPayload(bs, g)]

\* catch (e) { Batcher.sendTransaction(url, singleRequests, ...) }: the call
\* is neither awaited nor returned, so the caller resumes while it runs
awaitsReissue == FALSE

\* a re-issue that gives up after maxRetries attempts, as the parallel mode does
reissueRequestsCapped(req) ==
    IF req.attempt < maxRetries
    THEN {[req EXCEPT !.attempt = @ + 1, !.awaited = req.awaited /\ awaitsReissue]}
    ELSE {}

\* the request the catch block of sendTransaction issues
reissueRequests(req) ==
    {[req EXCEPT !.attempt = @ + 1, !.awaited = req.awaited /\ awaitsReissue]}

\* a receipt loop that credits the first allocated account every time
accountForHashFirst(accounts, i) == accounts[1].mnemonicIndex

\* fundAccounts line 283: accounts[i].mnemonicIndex for txHashes[i] (0-based i)
accountForHash(accounts, i) == accounts[i + 1].mnemonicIndex

FundInit ==
    /\ \E n \in 1..MaxFundAccounts :
         fAccounts = [j \in 1..n |-> distributeAccount(50 * j, 10 + j)]
    /\ fBatchSize \in 0..MaxFundBatch
    /\ batches = <<>>
    /\ bCur = 0
    /\ bpc = "idle"
    /\ bInflight = {}
    /\ txHashes = <<>>
    /\ batchErrors = <<>>
    /\ bPosts = <<>>
    /\ bFailed = <<>>
    /\ bResponses = <<>>
    /\ bFailsLeft = MaxFundFails
    /\ fSourceCount = SourceTxCount
    /\ fi = 0
    /\ fpc = "sign"
    /\ fWaiting = <<>>
    /\ waitErrors = <<>>
    /\ fReady = <<>>
    /\ hReceiptOk = {}

FundIdle ==
    /\ fAccounts = <<>>
    /\ fBatchSize = 1
    /\ batches = <<>>
    /\ bCur = 0
    /\ bpc = "idle"
    /\ bInflight = {}
    /\ txHashes = <<>>
    /\ batchErrors = <<>>
    /\ bPosts = <<>>
    /\ bFailed = <<>>
    /\ bResponses = <<>>
    /\ bFailsLeft = 0
    /\ fSourceCount = 0
    /\ fi = 0
    /\ fpc = "idle"
    /\ fWaiting = <<>>
    /\ waitErrors = <<>>
    /\ fReady = <<>>
    /\ hReceiptOk = {}

\* a loop that starts the waits for all the identifiers left at once
receiptLoopAtOnce(i, hashes) ==
    IF i < Len(hashes)
    THEN [fpc |-> "waiting", fi |-> i, fWaiting |-> SubSeq(hashes, i + 1, Len(hashes))]
    ELSE [fpc |-> "done", fi |-> i, fWaiting |-> <<>>]

\* fundAccounts, "for (let i = 0; i < txHashes.length; i++)": the loop test
\* for i and, when it passes, the call of waitForTransaction(txHashes[i])
receiptLoop(i, hashes) ==
    IF i < Len(hashes)
    THEN [fpc |-> "waiting", fi |-> i, fWaiting |-> <<hashes[i + 1]>>]
    ELSE [fpc |-> "done", fi |-> i, fWaiting |-> <<>>]

\* a receipt loop without its try / catch: the error of a failed wait escapes
afterReceiptFatal(outcome, i, hashes) ==
    IF outcome = "success" THEN receiptLoop(i + 1, hashes)
    ELSE [fpc |-> "error", fi |-> i, fWaiting |-> <<>>]

\* fundAccounts, the end of one pass of the receipt loop: the errors thrown
\* for a null receipt, a status 0 or a rejected wait are caught by
\* "catch (e) { waitErrors.push(e) }", so in every case i++ and the loop test
afterReceipt(outcome, i, hashes) == receiptLoop(i + 1, hashes)

\* batchTransactions after "await Batcher.sendTransaction(...)" of group cur
\* has returned: the POST of the next group, or the return to fundAccounts,
\* which goes on to its receipt loop
loopContinue(bs, cur, hashes) ==
    IF cur < Len(bs)
    THEN [bCur |-> cur + 1, bpc |-> "sending", posted |-> {groupRequest(bs, cur + 1)},
          fpc |-> "batching", fi |-> 0, fWaiting |-> <<>>]
    ELSE LET r == receiptLoop(0, hashes)
         IN  [bCur |-> cur, bpc |-> "returned", posted |-> {},
              fpc |-> r.fpc, fi |-> r.fi, fWaiting |-> r.fWaiting]

\* the requests of a set, as log entries in group order
RECURSIVE logOf(_)
logOf(reqs) ==
    IF reqs = {} THEN <<>>
    ELSE LET r == CHOOSE q \in reqs : \A o \in reqs : q.grp <= o.grp
         IN  <<r>> \o logOf(reqs \ {r})

\* fundAccounts up to its first network await inside batchTransactions:
\* sign one transaction per account, generateBatches, POST the first group
FundStart ==
    /\ fpc = "sign"
    /\ LET signed == signFundingTxs(fAccounts, fSourceCount)
           gb     == generateBatches(signed, fBatchSize)
           c      == loopContinue(gb.batches, 0, <<>>)
       IN  IF gb.outcome = "returns"
           THEN /\ batches' = gb.batches
                /\ bFailed' = [g \in 1..Len(gb.batches) |-> 0]
                /\ bCur' = c.bCur
                /\ bpc' = c.bpc
                /\ bInflight' = c.posted
                /\ bPosts' = logOf(c.posted)
                /\ fpc' = c.fpc
                /\ fi' = c.fi
                /\ fWaiting' = c.fWaiting
           ELSE /\ bpc' = IF gb.outcome = "diverges" THEN "diverged" ELSE "threw"
                /\ fpc' = IF gb.outcome = "diverges" THEN "hung" ELSE "error"
                /\ UNCHANGED <<batches, bFailed, bCur, bInflight, bPosts, fi, fWaiting>>
    /\ UNCHANGED <<fAccounts, fBatchSize, txHashes, batchErrors, bResponses,
                   bFailsLeft, fSourceCount, waitErrors, fReady, hReceiptOk>>
    /\ UNCHANGED notFund

\* the response of the node to a batch call: one element per request
\* element, in request order; the elements at the positions errs are errors
batchContent(req, errs) ==
    [i \in 1..Len(req.payload) |-> [tx |-> req.payload[i].params, error |-> i \in errs]]

\* the POST of req is answered: sendTransaction records every element; when
\* the loop of batchTransactions is suspended on this call it resumes
BatchResponse(req, errs) ==
    /\ req \in bInflight
    /\ LET content == batchContent(req, errs)
           rec     == recordContent(content, txHashes, batchErrors)
           c       == loopContinue(batches, bCur, rec.txHashes)
       IN  /\ txHashes' = rec.txHashes
           /\ batchErrors' = rec.batchErrors
           /\ bResponses' = Append(bResponses, [grp |-> req.grp, content |-> content])
           /\ IF req.awaited
              THEN /\ bCur' = c.bCur
                   /\ bpc' = c.bpc
                   /\ bInflight' = (bInflight \ {req}) \cup c.posted
                   /\ bPosts' = bPosts \o logOf(c.posted)
                   /\ fpc' = c.fpc
                   /\ fi' = c.fi
                   /\ fWaiting' = c.fWaiting
              ELSE /\ bInflight' = bInflight \ {req}
                   /\ UNCHANGED <<bCur, bpc, bPosts, fpc, fi, fWaiting>>
    /\ UNCHANGED <<fAccounts, fBatchSize, batches, bFailed, bFailsLeft,
                   fSourceCount, waitErrors, fReady, hReceiptOk>>
    /\ UNCHANGED notFund

\* the POST of req fails in transport: the catch block issues the same call
\* again; when the loop of batchTransactions is suspended on this call and
\* the new call is not awaited, the loop resumes at once
BatchTransportFailure(req) ==
    /\ req \in bInflight
    /\ bFailsLeft > 0
    /\ bFailsLeft' = bFailsLeft - 1
    /\ bFailed' = [bFailed EXCEPT ![req.grp] = @ + 1]
    /\ LET again   == reissueRequests(req)
           resumes == req.awaited /\ \A r \in again : ~r.awaited
           c       == loopContinue(batches, bCur, txHashes)
       IN  IF resumes
           THEN /\ bCur' = c.bCur
                /\ bpc' = c.bpc
                /\ bInflight' = ((bInflight \ {req}) \cup again) \cup c.posted
                /\ bPosts' = bPosts \o logOf(again) \o logOf(c.posted)
                /\ fpc' = c.fpc
                /\ fi' = c.fi
                /\ fWaiting' = c.fWaiting
           ELSE /\ bInflight' = (bInflight \ {req}) \cup again
                /\ bPosts' = bPosts \o logOf(again)
                /\ UNCHANGED <<bCur, bpc, fpc, fi, fWaiting>>
    /\ UNCHANGED <<fAccounts, fBatchSize, batches, txHashes, batchErrors, bResponses,
                   fSourceCount, waitErrors, fReady, hReceiptOk>>
    /\ UNCHANGED notFund

\* waitForTransaction(txHashes[i]) settles: a receipt with status success,
\* a receipt with status 0, null, or a rejection (timeout); then i++ and the
\* loop test again
ReceiptResolve(outcome) ==
    /\ fpc = "waiting"
    /\ LET r == afterReceipt(outcome, fi, txHashes)
       IN  /\ fpc' = r.fpc
           /\ fi' = r.fi
           /\ fWaiting' = r.fWaiting
    /\ IF outcome = "success" /\ fi < Len(fAccounts)
       THEN /\ fReady' = Append(fReady, accountForHash(fAccounts, fi))
            /\ waitErrors' = waitErrors
       ELSE /\ fReady' = fReady
            /\ waitErrors' = Append(waitErrors, [hash |-> fWaiting[1], outcome |-> outcome])
    /\ hReceiptOk' = IF outcome = "success" THEN hReceiptOk \cup {fWaiting[1]}
                     ELSE hReceiptOk
    /\ UNCHANGED <<fAccounts, fBatchSize, batches, bCur, bpc, bInflight, txHashes,
                   batchErrors, bPosts, bFailed, bResponses, bFailsLeft, fSourceCount>>
    /\ UNCHANGED notFund

NextFund ==
    \/ FundStart
    \/ \E req \in bInflight :
         \E errs \in SUBSET (1..Len(req.payload)) : BatchResponse(req, errs)
    \/ \E req \in bInflight : BatchTransportFailure(req)
    \/ \E outcome \in ReceiptOutcomes : ReceiptResolve(outcome)

----------------------------------------------------------------------------
(***************************************************************************)
(* run(): Distributor.distribute, then TokenDistributor.distributeTokens   *)
(* for the ERC20 workload, then Engine.Run.  distribute / distributeTokens *)
(* chain the scan, the allocator and fundAccounts.  A run of the ERC20     *)
(* workload is followed up to the end of distribute; its token phase is    *)
(* followed from the moment TokenDistributor is constructed with the list  *)
(* distribute returned.                                                    *)
(***************************************************************************)
MaxRunAccounts == 2
MaxRunFails == 1

RunModes == {"EOA", "ERC20", "ERC721"}

\* this.readyMnemonicIndexes: what the scan left in it, then what
\* fundAccounts pushed
readyMnemonicIndexes == aReady \o fReady

\* the token phase belongs to the ERC20 workload
RunInit ==
    /\ rMode \in (IF aMode = "native" THEN RunModes ELSE {"ERC20"})
    /\ rpc = IF aMode = "native" THEN "distribute" ELSE "distributeTokens"
    \* const accountIndexes = await distributor.distribute()
    /\ runAccountIndexes = IF aMode = "native" THEN <<>> ELSE aReady

RunIdle ==
    /\ rMode = "EOA"
    /\ rpc = "idle"
    /\ runAccountIndexes = <<>>

AgainIdle ==
    /\ aRun = 1
    /\ aFirstRun = [outcome |-> "none", accounts |-> <<>>]

\* await this.fundAccounts(baseCosts, fundableAccounts); the token
\* distributor first clears its list of ready indexes
CallFundAccounts ==
    /\ rpc \in {"distribute", "distributeTokens"}
    /\ apc = "allocated"
    /\ apc' = "funding"
    /\ aReady' = IF aMode = "token" THEN <<>> ELSE aReady
    /\ fAccounts' = accountsToFund
    /\ fBatchSize' \in 0..MaxFundBatch
    /\ bFailsLeft' = MaxRunFails
    /\ fSourceCount' = SourceTxCount
    /\ fpc' = "sign"
    /\ UNCHANGED <<batches, bCur, bpc, bInflight, txHashes, batchErrors, bPosts,
                   bFailed, bResponses, fi, fWaiting, waitErrors, fReady, hReceiptOk>>
    /\ UNCHANGED <<aMode, aRequired, aDistCost, aBalances, aSource,
                   shortAddresses, distributorBalance, accountsToFund>>
    /\ UNCHANGED <<genVars, nonceVars, parVars, runVars, againVars, prepVars, rtVars, earlierVars, costVars>>

\* fundAccounts has returned: return this.readyMnemonicIndexes
DistributeReturn ==
    /\ apc = "funding"
    /\ fpc = "done"
    /\ apc' = "returned"
    /\ UNCHANGED <<aMode, aRequired, aDistCost, aBalances, aSource,
                   shortAddresses, aReady, distributorBalance, accountsToFund>>
    /\ UNCHANGED notAlloc

\* run(): distribute has returned; the token distribution comes next for
\* the ERC20 workload, Engine.Run otherwise
RunAfterDistribute ==
    /\ rpc = "distribute"
    /\ apc \in {"returned", "fullyFunded"}
    /\ runAccountIndexes' = readyMnemonicIndexes
    /\ rpc' = IF rMode = "ERC20" THEN "distributeTokens" ELSE "engine"
    /\ UNCHANGED rMode
    /\ UNCHANGED <<genVars, allocVars, nonceVars, parVars, fundVars, againVars, prepVars, rtVars, earlierVars, costVars>>

\* run(): distributeTokens has returned, its result is not used;
\* Engine.Run is handed accountIndexes
RunAfterTokens ==
    /\ rpc = "distributeTokens"
    /\ aMode = "token"
    /\ apc \in {"returned", "fullyFunded"}
    /\ rpc' = "engine"
    /\ UNCHANGED <<rMode, runAccountIndexes>>
    /\ UNCHANGED <<genVars, allocVars, nonceVars, parVars, fundVars, againVars, prepVars, rtVars, earlierVars, costVars>>

\* run(): distribute or distributeTokens has thrown; run().catch logs the
\* error and the process exits
RunAbort ==
    /\ rpc \in {"distribute", "distributeTokens"}
    /\ apc = "errNotEnoughFunds"
    /\ rpc' = "aborted"
    /\ UNCHANGED <<rMode, runAccountIndexes>>
    /\ UNCHANGED <<genVars, allocVars, nonceVars, parVars, fundVars, againVars, prepVars, rtVars, earlierVars, costVars>>

NextRun ==
    \/ NextAlloc
    \/ CallFundAccounts
    \/ NextFund
    \/ DistributeReturn
    \/ RunAfterDistribute
    \/ RunAfterTokens
    \/ RunAbort

\* the scan and the allocator executed once more on the same node state
RepeatAllocation ==
    /\ aRun = 1
    /\ rpc = "idle"
    /\ apc \in {"fullyFunded", "allocated", "errNotEnoughFunds"}
    /\ aFirstRun' = [outcome |-> apc, accounts |-> accountsToFund]
    /\ aRun' = 2
    /\ shortAddresses' = <<>>
    /\ aReady' = IF aMode = "token" THEN Iota(Len(aBalances)) ELSE <<>>
    /\ distributorBalance' = 0
    /\ accountsToFund' = <<>>
    /\ apc' = "scan"
    /\ UNCHANGED <<aMode, aRequired, aDistCost, aBalances, aSource>>
    /\ UNCHANGED <<genVars, nonceVars, parVars, fundVars, runVars, prepVars, rtVars, earlierVars, costVars>>

NextAllocTwice == NextAlloc \/ RepeatAllocation

----------------------------------------------------------------------------
(***************************************************************************)
(* ERC20Runtime / ERC721Runtime: this.contract is undefined until          *)
(* Initialize has deployed the contract; the operations that need it check *)
(* it first.  The runtime is driven either by any caller, in any order, or *)
(* by run(), which awaits Initialize before it builds the Distributor.     *)
(* tCalls is the record of the operations called, tNodeCalls counts the    *)
(* operations that went on to the node, tNonce is the nonce of a sender    *)
(* account handed to ConstructTransactions.                                *)
(***************************************************************************)
MaxRuntimeCalls == 3

ContractRuntimes == {"ERC20", "ERC721"}

\* the operations with "if (!this.contract) throw errRuntimeNotInitialized"
\* (GetSupplierBalance reaches it through GetTokenBalance)
contractOps(mode) ==
    IF mode = "ERC20"
    THEN {"EstimateBaseTx", "GetTokenBalance", "GetSupplierBalance", "FundAccount",
          "CreateFundTransaction", "ConstructTransactions"}
    ELSE {"EstimateBaseTx", "ConstructTransactions"}

\* the operations on the contract in the order run() reaches them:
\* Distributor.calculateRuntimeCosts, then for ERC20 the token scan, the
\* token allocator and the token fundAccounts, then Engine.Run
runOps(mode) ==
    IF mode = "ERC20"
    THEN <<"EstimateBaseTx", "GetTokenBalance", "GetSupplierBalance",
           "EstimateBaseTx", "CreateFundTransaction", "ConstructTransactions">>
    ELSE <<"EstimateBaseTx", "ConstructTransactions">>

\* an operation that goes on without the check
contractOpOutcomeUnchecked(op, hasContract) == "returns"

\* if (!this.contract) { throw RuntimeErrors.errRuntimeNotInitialized; }
contractOpOutcome(op, hasContract) ==
    IF ~hasContract THEN "errRuntimeNotInitialized" ELSE "returns"

RuntimeInit ==
    /\ tMode \in ContractRuntimes
    /\ tDriver \in {"any", "run"}
    /\ contract = FALSE
    /\ tDeploying = FALSE
    /\ tNonce = 0
    /\ tNodeCalls = 0
    /\ tCalls = <<>>
    /\ tStep = 1
    /\ tpc = "constructed"

RuntimeIdle ==
    /\ tMode = "ERC20"
    /\ tDriver = "any"
    /\ contract = FALSE
    /\ tDeploying = FALSE
    /\ tNonce = 0
    /\ tNodeCalls = 0
    /\ tCalls = <<>>
    /\ tStep = 1
    /\ tpc = "idle"

notRuntime == <<genVars, allocVars, nonceVars, parVars, fundVars, runVars, againVars, prepVars, earlierVars, costVars>>

\* Initialize() is called: the deployment is under way
InitializeStart ==
    /\ tpc = "constructed"
    /\ tDeploying' = TRUE
    /\ tpc' = "initializing"
    /\ UNCHANGED <<tMode, tDriver, contract, tNonce, tNodeCalls, tCalls, tStep>>
    /\ UNCHANGED notRuntime

\* this.contract = await this.deployERC20() / deployERC721()
InitializeDone ==
    /\ tpc = "initializing"
    /\ contract' = TRUE
    /\ tDeploying' = FALSE
    /\ tpc' = "initialized"
    /\ UNCHANGED <<tMode, tDriver, tNonce, tNodeCalls, tCalls, tStep>>
    /\ UNCHANGED notRuntime

\* the deployment rejects: Initialize rejects, this.contract stays undefined;
\* in run() the rejection ends the run
InitializeFails ==
    /\ tpc = "initializing"
    /\ tDeploying' = FALSE
    /\ tpc' = IF tDriver = "run" THEN "aborted" ELSE "constructed"
    /\ UNCHANGED <<tMode, tDriver, contract, tNonce, tNodeCalls, tCalls, tStep>>
    /\ UNCHANGED notRuntime

\* the effect of one operation on the contract
callOperation(op) ==
    LET outcome == contractOpOutcome(op, contract)
    IN  /\ tCalls' = Append(tCalls, [op |-> op, contract |-> contract, outcome |-> outcome,
                                      nodeCalls |-> tNodeCalls, nonce |-> tNonce])
        /\ tNodeCalls' = IF outcome = "returns" THEN tNodeCalls + 1 ELSE tNodeCalls
        /\ tNonce' = IF outcome = "returns" /\ op = "ConstructTransactions"
                     THEN tNonce + 1 ELSE tNonce

\* any caller calls an operation, at any time
CallOperation(op) ==
    /\ tDriver = "any"
    /\ tpc \in {"constructed", "initializing", "initialized"}
    /\ Len(tCalls) < MaxRuntimeCalls
    /\ op \in contractOps(tMode)
    /\ callOperation(op)
    /\ UNCHANGED <<tMode, tDriver, contract, tDeploying, tStep, tpc>>
    /\ UNCHANGED notRuntime

\* run() after "await Initialize()": the next operation of the run
RunOperation ==
    /\ tDriver = "run"
    /\ tpc = "initialized"
    /\ tStep <= Len(runOps(tMode))
    /\ callOperation(runOps(tMode)[tStep])
    /\ tStep' = tStep + 1
    /\ tpc' = IF contractOpOutcome(runOps(tMode)[tStep], contract) = "returns"
              THEN tpc ELSE "aborted"
    /\ UNCHANGED <<tMode, tDriver, contract, tDeploying>>
    /\ UNCHANGED notRuntime

NextRuntime ==
    \/ InitializeStart
    \/ InitializeDone
    \/ InitializeFails
    \/ \E op \in contractOps(tMode) : CallOperation(op)
    \/ RunOperation

----------------------------------------------------------------------------
(***************************************************************************)
(* The earlier pipeline of Engine.Run: EOARuntime.ConstructTransactions    *)
(* builds the unsigned transactions and advances the nonces, then          *)
(* Signer.signTransactions signs them, one task per account and the        *)
(* remainder for the last account afterwards.  A raw transaction is        *)
(* [from, nonce]; a signed transaction stands for the raw one it signs.    *)
(* eCur[a] is the number of transactions the task of account a has dealt   *)
(* with, eRem the number of remainder transactions dealt with.             *)
(***************************************************************************)
MaxEarlierAccounts == 2
MaxEarlierTxs == 4
MaxEarlierNonce == 1
MaxEarlierSignFails == 2

\* const txsPerAccount = Math.floor(numTx / numAccounts)
txsPerAccount(numTx, numAccounts) == numTx \div numAccounts

\* const remainingTxs = numTx % numAccounts
remainingTxs(numTx, numAccounts) == numTx % numAccounts

\* the two loops of the earlier ConstructTransactions: per account
\* txsPerAccount transactions, then remainingTxs more for the last account,
\* each followed by sender.incrNonce()
constructEarlier(accounts, numTx) ==
    LET n   == Len(accounts)
        per == txsPerAccount(numTx, n)
        rem == remainingTxs(numTx, n)
        first == [t \in 1..(n * per) |->
                    LET i == ((t - 1) \div per) + 1
                        j == (t - 1) % per
                    IN  [from |-> i, nonce |-> accounts[i].nonce + j]]
        last  == [r \in 1..rem |-> [from |-> n, nonce |-> accounts[n].nonce + per + (r - 1)]]
    IN  [transactions |-> first \o last,
         accounts |-> [i \in 1..n |->
                         [accounts[i] EXCEPT !.nonce = @ + per + (IF i = n THEN rem ELSE 0)]]]

\* a slice whose startIndex stays at the head of the list
senderTransactionsFromHead(transactions, index, numAccounts) ==
    SubSeq(transactions, 1, index * txsPerAccount(Len(transactions), numAccounts))

\* transactions.slice(startIndex, endIndex) of the task of account index
senderTransactions(transactions, index, numAccounts) ==
    LET per == txsPerAccount(Len(transactions), numAccounts)
    IN  SubSeq(transactions, (index - 1) * per + 1, index * per)

\* transactions.slice(numAccounts * txsPerAccount)
remainingTxns(transactions, numAccounts) ==
    SubSeq(transactions, numAccounts * txsPerAccount(Len(transactions), numAccounts) + 1,
           Len(transactions))

\* getSenderAccounts(accountIndexes, numTxs) hands over at most numTxs accounts
EarlierInit ==
    /\ \E n \in 1..MaxEarlierAccounts :
         eAccounts \in {[a \in 1..n |-> senderAccount(a, count[a])] :
                           count \in [1..n -> 0..MaxEarlierNonce]}
    /\ eInitial = [a \in DOMAIN eAccounts |-> eAccounts[a].nonce]
    /\ eNumTx \in Len(eAccounts)..MaxEarlierTxs
    /\ eRaw = <<>>
    /\ eSigned = [a \in DOMAIN eAccounts |-> <<>>]
    /\ eCur = [a \in DOMAIN eAccounts |-> 0]
    /\ eRem = 0
    /\ eSignErrors = 0
    /\ eFailsLeft = MaxEarlierSignFails
    /\ epc = "construct"

EarlierIdle ==
    /\ eAccounts = <<>>
    /\ eInitial = <<>>
    /\ eNumTx = 0
    /\ eRaw = <<>>
    /\ eSigned = <<>>
    /\ eCur = <<>>
    /\ eRem = 0
    /\ eSignErrors = 0
    /\ eFailsLeft = 0
    /\ epc = "idle"

notEarlier == <<genVars, allocVars, nonceVars, parVars, fundVars, runVars, againVars, prepVars, rtVars, costVars>>

\* where signTransactions stands once cur and rem transactions are dealt with
signPhase(raw, cur, rem) ==
    IF \E a \in DOMAIN eAccounts :
           cur[a] < Len(senderTransactions(raw, a, Len(eAccounts)))
    THEN "sign"
    ELSE IF rem < Len(remainingTxns(raw, Len(eAccounts))) THEN "remainder"
    ELSE "returned"

\* ConstructTransactions after its two node calls: the loops have no await
EarlierConstruct ==
    /\ epc = "construct"
    /\ LET c == constructEarlier(eAccounts, eNumTx)
       IN  /\ eRaw' = c.transactions
           /\ eAccounts' = c.accounts
           /\ epc' = signPhase(c.transactions, eCur, eRem)
    /\ UNCHANGED <<eInitial, eNumTx, eSigned, eCur, eRem, eSignErrors, eFailsLeft>>
    /\ UNCHANGED notEarlier

\* the task of account a: signedTxns.push(await sender.wallet.signTransaction(transaction))
EarlierSign(a) ==
    /\ epc = "sign"
    /\ a \in DOMAIN eAccounts
    /\ eCur[a] < Len(senderTransactions(eRaw, a, Len(eAccounts)))
    /\ LET cur == [eCur EXCEPT ![a] = @ + 1]
       IN  /\ eSigned' = [eSigned EXCEPT ![a] =
                             Append(@, senderTransactions(eRaw, a, Len(eAccounts))[eCur[a] + 1])]
           /\ eCur' = cur
           /\ epc' = signPhase(eRaw, cur, eRem)
    /\ UNCHANGED <<eAccounts, eInitial, eNumTx, eRaw, eRem, eSignErrors, eFailsLeft>>
    /\ UNCHANGED notEarlier

\* the task of account a: catch (e) { failedTxnSignErrors.push(e) }
EarlierSignFails(a) ==
    /\ epc = "sign"
    /\ a \in DOMAIN eAccounts
    /\ eCur[a] < Len(senderTransactions(eRaw, a, Len(eAccounts)))
    /\ eFailsLeft > 0
    /\ eFailsLeft' = eFailsLeft - 1
    /\ eSignErrors' = eSignErrors + 1
    /\ eCur' = [eCur EXCEPT ![a] = @ + 1]
    /\ epc' = signPhase(eRaw, [eCur EXCEPT ![a] = @ + 1], eRem)
    /\ UNCHANGED <<eAccounts, eInitial, eNumTx, eRaw, eSigned, eRem>>
    /\ UNCHANGED notEarlier

\* the remainder loop for the last account, after Promise.all
EarlierSignRemainder(fails) ==
    /\ epc = "remainder"
    /\ fails => eFailsLeft > 0
    /\ LET n == Len(eAccounts)
       IN  eSigned' = IF fails THEN eSigned
                      ELSE [eSigned EXCEPT ![n] =
                              Append(@, remainingTxns(eRaw, n)[eRem + 1])]
    /\ eFailsLeft' = IF fails THEN eFailsLeft - 1 ELSE eFailsLeft
    /\ eSignErrors' = IF fails THEN eSignErrors + 1 ELSE eSignErrors
    /\ eRem' = eRem + 1
    /\ epc' = signPhase(eRaw, eCur, eRem + 1)
    /\ UNCHANGED <<eAccounts, eInitial, eNumTx, eRaw, eCur>>
    /\ UNCHANGED notEarlier

NextEarlier ==
    \/ EarlierConstruct
    \/ \E a \in DOMAIN eAccounts : EarlierSign(a)
    \/ \E a \in DOMAIN eAccounts : EarlierSignFails(a)
    \/ \E fails \in BOOLEAN : EarlierSignRemainder(fails)

----------------------------------------------------------------------------
(***************************************************************************)
(* Distributor.calculateRuntimeCosts, followed by the scan and the         *)
(* allocator of distribute().  BigNumber arithmetic is exact, so the       *)
(* amounts are integers.  cCosts is the runtimeCosts object, once built.   *)
(***************************************************************************)
MaxTotalTx == 2
MaxGasPrice == 2
MaxGasEstimate == 2
MaxInherentValue == 1
MaxCostAccounts == 2

\* a base cost without the factor of 10
baseTxCostPlain(baseGasPrice, baseTxEstimate, inherentValue) ==
    baseGasPrice * baseTxEstimate + inherentValue

\* const baseTxCost = baseGasPrice.mul(baseTxEstimate).add(inherentValue).mul(10)
baseTxCost(baseGasPrice, baseTxEstimate, inherentValue) ==
    (baseGasPrice * baseTxEstimate + inherentValue) * 10

\* const subAccountCost = BigNumber.from(this.totalTx).mul(baseTxCost)
subAccountCost(totalTx, baseGasPrice, baseTxEstimate, inherentValue) ==
    totalTx * baseTxCost(baseGasPrice, baseTxEstimate, inherentValue)

\* new runtimeCosts(singleDistributionCost, subAccountCost)
runtimeCosts(accDistributionCost, subAccount) ==
    [accDistributionCost |-> accDistributionCost, subAccount |-> subAccount]

CostInit ==
    /\ cTotalTx \in 0..MaxTotalTx
    /\ cGasPrice \in 0..MaxGasPrice
    /\ cGasEstimate \in 1..MaxGasEstimate
    /\ cValue \in 0..MaxInherentValue
    /\ cCosts = runtimeCosts(0, 0)
    /\ aMode = "native"
    /\ aRequired = 0
    /\ aDistCost = 0
    /\ \E n \in 1..MaxCostAccounts : aBalances \in [1..n -> {0, 10, 50}]
    /\ aSource \in {20, 120}
    /\ shortAddresses = <<>>
    /\ aReady = <<>>
    /\ distributorBalance = 0
    /\ accountsToFund = <<>>
    /\ apc = "costs"

CostIdle ==
    /\ cTotalTx = 0
    /\ cGasPrice = 0
    /\ cGasEstimate = 0
    /\ cValue = 0
    /\ cCosts = runtimeCosts(0, 0)

\* distribute: const baseCosts = await this.calculateRuntimeCosts(); the
\* scan is then given baseCosts.subAccount, the allocator baseCosts
CalculateRuntimeCosts ==
    /\ apc = "costs"
    /\ \E singleDistributionCost \in DistCostValues :
         LET costs == runtimeCosts(singleDistributionCost,
                                   subAccountCost(cTotalTx, cGasPrice, cGasEstimate, cValue))
         IN  /\ cCosts' = costs
             /\ aRequired' = costs.subAccount
             /\ aDistCost' = costs.accDistributionCost
    /\ apc' = "scan"
    /\ UNCHANGED <<cTotalTx, cGasPrice, cGasEstimate, cValue>>
    /\ UNCHANGED <<aMode, aBalances, aSource, shortAddresses, aReady,
                   distributorBalance, accountsToFund>>
    /\ UNCHANGED <<genVars, nonceVars, parVars, fundVars, runVars, againVars, prepVars,
                   rtVars, earlierVars>>

NextCost ==
    \/ CalculateRuntimeCosts
    \/ FindAccountsForDistribution
    \/ ReturnFullyFunded
    \/ ReadDistributorBalance
    \/ AllocateOne
    \/ AllocateStop

----------------------------------------------------------------------------
(***************************************************************************)
(* Specifications, one per subsystem                                       *)
(***************************************************************************)
NextGen == CallGenerateBatches

InitGen   == GenInit /\ AllocIdle /\ NonceIdle /\ ParIdle /\ FundIdle /\ RunIdle /\ AgainIdle /\ PrepIdle /\ RuntimeIdle /\ EarlierIdle /\ CostIdle
InitAlloc == GenIdle /\ AllocInit /\ NonceIdle /\ ParIdle /\ FundIdle /\ RunIdle /\ AgainIdle /\ PrepIdle /\ RuntimeIdle /\ EarlierIdle /\ CostIdle
InitNonce == GenIdle /\ AllocIdle /\ NonceInit /\ ParIdle /\ FundIdle /\ RunIdle /\ AgainIdle /\ PrepIdle /\ RuntimeIdle /\ EarlierIdle /\ CostIdle
InitPar   == GenIdle /\ AllocIdle /\ NonceIdle /\ ParInit /\ FundIdle /\ RunIdle /\ AgainIdle /\ PrepIdle /\ RuntimeIdle /\ EarlierIdle /\ CostIdle
InitFund  == GenIdle /\ AllocIdle /\ NonceIdle /\ ParIdle /\ FundInit /\ RunIdle /\ AgainIdle /\ PrepIdle /\ RuntimeIdle /\ EarlierIdle /\ CostIdle
InitRun   == GenIdle /\ allocInit(MaxRunAccounts) /\ NonceIdle /\ ParIdle /\ FundIdle /\ RunInit /\ AgainIdle /\ PrepIdle /\ RuntimeIdle /\ EarlierIdle /\ CostIdle
InitPrep  == GenIdle /\ AllocIdle /\ NonceIdle /\ ParIdle /\ FundIdle /\ RunIdle /\ AgainIdle /\ PrepInit /\ RuntimeIdle /\ EarlierIdle /\ CostIdle
InitParAnyFailure == GenIdle /\ AllocIdle /\ NonceIdle /\ ParInitAnyFailure /\ FundIdle /\ RunIdle /\ AgainIdle /\ PrepIdle /\ RuntimeIdle /\ EarlierIdle /\ CostIdle
InitEarlier == GenIdle /\ AllocIdle /\ NonceIdle /\ ParIdle /\ FundIdle /\ RunIdle /\ AgainIdle /\ PrepIdle /\ RuntimeIdle /\ EarlierInit /\ CostIdle
InitCost == GenIdle /\ CostInit /\ NonceIdle /\ ParIdle /\ FundIdle /\ RunIdle /\ AgainIdle /\ PrepIdle /\ RuntimeIdle /\ EarlierIdle
InitRuntime == GenIdle /\ AllocIdle /\ NonceIdle /\ ParIdle /\ FundIdle /\ RunIdle /\ AgainIdle /\ PrepIdle /\ RuntimeInit /\ EarlierIdle /\ CostIdle

SpecGen   == InitGen /\ [][NextGen]_vars
SpecAlloc == InitAlloc /\ [][NextAlloc]_vars
SpecNonce == InitNonce /\ [][NextNonce]_vars
SpecPar   == InitPar /\ [][NextPar]_vars
SpecFund  == InitFund /\ [][NextFund]_vars
SpecRun   == InitRun /\ [][NextRun]_vars
SpecPrep  == InitPrep /\ [][NextPrep]_vars
SpecRuntime == InitRuntime /\ [][NextRuntime]_vars
SpecCost    == InitCost /\ [][NextCost]_vars
SpecEarlier == InitEarlier /\ [][NextEarlier]_vars

\* "provided every node call eventually returns or fails": a POST in flight
\* is answered, and the callback of a settled POST is run
SpecParFair == InitParAnyFailure /\ [][NextPar]_vars /\ WF_vars(NextPar)

\* the scan and the allocator, executed twice on the same node state
SpecAllocTwice == InitAlloc /\ [][NextAllocTwice]_vars

\* either dispatch mode of the Batcher
InitDispatch == InitPar \/ InitFund
NextDispatch == NextPar \/ NextFund
SpecDispatch == InitDispatch /\ [][NextDispatch]_vars

\* the whole engine: any one of the subsystems at work
Init == InitGen \/ InitAlloc \/ InitNonce \/ InitPar \/ InitFund \/ InitRun \/ InitPrep \/ InitRuntime \/ InitEarlier \/ InitCost
Next == NextGen \/ NextAllocTwice \/ NextNonce \/ NextPar \/ NextRun \/ NextPrep \/ NextRuntime \/ NextEarlier \/ CalculateRuntimeCosts
Spec == Init /\ [][Next]_vars

----------------------------------------------------------------------------
(***************************************************************************)
(* Properties                                                              *)
(***************************************************************************)
RECURSIVE SumMissingFunds(_)
SumMissingFunds(accounts) ==
    IF accounts = <<>> THEN 0
    ELSE Head(accounts).missingFunds + SumMissingFunds(Tail(accounts))

\* C1: budget conservation.  In both allocators the sum of missingFunds over
\* the accounts taken by getFundableAccounts never exceeds the source balance
\* read at the start of the loop, i.e. the tracked distributorBalance is never
\* negative at any step of the loop.
C1_BudgetConservation ==
    apc \in {"alloc", "allocated", "errNotEnoughFunds"} =>
        /\ distributorBalance >= 0
        /\ SumMissingFunds(accountsToFund) <= aSource

\* the funding transactions of fundAccounts, by account position
fundingTxs == signFundingTxs(fAccounts, fSourceCount)

\* the node answered the funding transaction tx with an identifier
acceptedByNode(tx) ==
    \E r \in 1..Len(bResponses) :
        \E e \in 1..Len(bResponses[r].content) :
            /\ bResponses[r].content[e].tx = tx
            /\ ~bResponses[r].content[e].error

\* C2: an index is pushed to readyMnemonicIndexes by fundAccounts only if the
\* funding transaction addressed to that same account was accepted by the
\* node and a receipt with non-failing status was observed for it.
C2_ReadyOnlyWithOwnReceipt ==
    \A x \in Range(fReady) :
        \E j \in 1..Len(fAccounts) :
            /\ fAccounts[j].mnemonicIndex = x
            /\ acceptedByNode(fundingTxs[j])
            /\ fundingTxs[j] \in hReceiptOk

\* C3: partial-failure accounting.  When a dispatch call has finished, the
\* number of recorded identifiers plus the number of recorded errors equals
\* the number of transactions submitted to it.
C3_PartialFailureAccounting ==
    /\ ppc = "returned" =>
         Len(pTxHashes) + Len(pBatchErrors) = SumTxs(pTxs, Len(pTxs))
    /\ bpc = "returned" =>
         Len(txHashes) + Len(batchErrors) = Len(fAccounts)

\* C4: nonce monotonicity.  For every sender account the transactions
\* ConstructTransactions signed for it carry, in list order, the nonces
\* initialNonce, initialNonce+1, ... with initialNonce the transaction count
\* read by getSenderAccounts; no gap and no repeat.
C4_NonceMonotonicity ==
    \A a \in 1..Len(nTxs) :
        /\ nInitial[a] = nChainCount[nAccounts[a].mnemonicIndex]
        /\ \A k \in 1..Len(nTxs[a]) :
              /\ nTxs[a][k].from = nAccounts[a].mnemonicIndex
              /\ nTxs[a][k].nonce = nInitial[a] + k - 1

\* C4 witness: two senders with different initial nonces, several
\* transactions each, all constructed
C4_Witness ==
    /\ npc = "constructed"
    /\ Len(nAccounts) >= 2
    /\ nInitial[1] # nInitial[2]
    /\ \A a \in 1..Len(nTxs) : Len(nTxs[a]) >= 2

\* how often the k-th transaction of sender s was POSTed
parPostCount(s, k) ==
    Cardinality({i \in 1..Len(pPosts[s]) : pPosts[s][i] = k})

\* the requests of sender s that are outstanding
parOutstanding(s) == {r \in pInflight : r.sender = s}

\* the send of the k-th transaction of sender s has completed: a response was
\* received, or it was abandoned, and no request for it is outstanding
parSendCompleted(s, k) ==
    /\ pOutcomes[s][k] # <<>>
    /\ \A r \in pInflight : ~(r.sender = s /\ r.k = k)
    /\ \/ pOutcomes[s][k][Len(pOutcomes[s][k])] = "response"
       \/ Len(pOutcomes[s][k]) >= 3

\* C5: in sendTransactionsInParallelBySender each sender has at most one
\* request in flight, the request for its (k+1)-th transaction is issued only
\* after the send of its k-th transaction has completed, and so the node is
\* sent each sender's transactions in list order.
C5_PerSenderSequential ==
    \A s \in ParSenders :
        /\ Cardinality(parOutstanding(s)) <= 1
        /\ \A i \in 1..Len(pPosts[s]) :
              pPosts[s][i] > 1 => parSendCompleted(s, pPosts[s][i] - 1)
        /\ \A i, j \in 1..Len(pPosts[s]) : i < j => pPosts[s][i] <= pPosts[s][j]

\* C5 witness: two senders, the first with two transactions, all sent, the
\* first sender's first one after a retry, the answers of the two tasks
\* interleaved
C5_Witness ==
    /\ ppc = "returned"
    /\ Len(pTxs) = 2 /\ pTxs[1] = 2 /\ pTxs[2] = 1
    /\ pOutcomes[1][1] = <<"failure", "response">>
    /\ pTxHashes = << <<1, 1>>, <<2, 1>>, <<1, 2>> >>

\* C6: in per-sender parallel mode every transaction is POSTed at least once
\* and at most 3 times; attempt i+1 is made only if attempt i ended in a
\* transport failure, and none is made once a response has been received.
C6_BoundedRetry ==
    \A s \in ParSenders : \A k \in 1..pTxs[s] :
        LET out   == pOutcomes[s][k]
            posts == parPostCount(s, k)
        IN  /\ posts <= 3
            /\ posts = Len(out) + Cardinality({r \in pInflight : r.sender = s /\ r.k = k})
            /\ \A i \in 1..Len(out) : i < posts => out[i] = "failure"
            /\ \A i \in 1..Len(out) : out[i] = "response" => i = posts
            /\ ppc = "returned" => posts >= 1

\* C6 witness: the call has returned with one transaction abandoned after 3
\* POSTs and another answered at its first POST
C6_Witness ==
    /\ ppc = "returned"
    /\ \E s \in ParSenders : \E k \in 1..pTxs[s] :
         parPostCount(s, k) = 3 /\ pOutcomes[s][k] = <<"failure", "failure", "failure">>
    /\ \E s \in ParSenders : \E k \in 1..pTxs[s] :
         parPostCount(s, k) = 1 /\ pOutcomes[s][k] = <<"response">>

\* how often group g was POSTed, and how often it was answered
groupPostCount(g) == Cardinality({i \in 1..Len(bPosts) : bPosts[i].grp = g})
groupResponseCount(g) == Cardinality({i \in 1..Len(bResponses) : bResponses[i].grp = g})
groupOutstanding(g) == {r \in bInflight : r.grp = g}

\* C7: in batchTransactions at most one group's request is outstanding at any
\* moment, and the request for group k+1 is issued only once the call for
\* group k, re-issues included, has completed.
C7_GroupsSequential ==
    /\ Cardinality(bInflight) <= 1
    /\ \A i \in 1..Len(bPosts) :
          bPosts[i].grp > 1 =>
              /\ groupOutstanding(bPosts[i].grp - 1) = {}
              /\ groupResponseCount(bPosts[i].grp - 1) >= 1

\* C8: in grouped-batch mode every transport failure of a group's call is
\* followed by a re-issue of exactly the same payload, without any cap; and
\* when a re-issue is answered, the group's identifiers and per-element errors
\* are recorded in the shared txHashes and batchErrors.
C8_UnboundedReissue ==
    LET hashes == Range(txHashes)
        errors == Range(batchErrors)
    IN  /\ \A g \in 1..Len(batches) :
              groupPostCount(g) >= 1 =>
                  /\ groupPostCount(g) = bFailed[g] + 1
                  /\ groupResponseCount(g) + Cardinality(groupOutstanding(g)) = 1
        /\ \A i \in 1..Len(bPosts) :
              bPosts[i].payload = batchPayload(batches, bPosts[i].grp)
        /\ \A r \in 1..Len(bResponses) :
              \A e \in 1..Len(bResponses[r].content) :
                  LET cnt == bResponses[r].content[e]
                  IN  IF cnt.error
                      THEN [message |-> cnt.tx] \in errors
                      ELSE cnt.tx \in hashes

\* C8 witness: a group that failed three times, where the parallel mode gives
\* up, re-issued a fourth time, answered and recorded next to another group's
\* identifiers
C8_Witness ==
    /\ Len(batches) >= 2
    /\ \E g \in 1..Len(batches) :
         /\ bFailed[g] >= 3
         /\ groupPostCount(g) >= 4
         /\ groupResponseCount(g) = 1
         /\ \E h \in 1..Len(batches) : h # g /\ groupResponseCount(h) = 1
    /\ Len(txHashes) + Len(batchErrors) = Len(fAccounts)
    /\ Len(txHashes) >= 2

\* the elements of the handled responses, in the order they were handled
RECURSIVE handledElements(_)
handledElements(responses) ==
    IF responses = <<>> THEN <<>>
    ELSE Head(responses).content \o handledElements(Tail(responses))

RECURSIVE resultsOf(_)
resultsOf(elements) ==
    IF elements = <<>> THEN <<>>
    ELSE (IF Head(elements).error THEN <<>> ELSE <<Head(elements).tx>>)
         \o resultsOf(Tail(elements))

RECURSIVE errorsOf(_)
errorsOf(elements) ==
    IF elements = <<>> THEN <<>>
    ELSE (IF Head(elements).error THEN <<[message |-> Head(elements).tx]>> ELSE <<>>)
         \o errorsOf(Tail(elements))

\* C9: every element of a handled response contributes exactly one entry, its
\* error message to batchErrors if it has an error field and its result to
\* txHashes otherwise; an error element does not stop the remaining elements
\* from being processed, does not keep later groups from being sent, and
\* never causes a re-send.
C9_PerElementRecording ==
    /\ txHashes = resultsOf(handledElements(bResponses))
    /\ batchErrors = errorsOf(handledElements(bResponses))
    /\ pTxHashes = resultsOf(pResponses)
    /\ pBatchErrors = errorsOf(pResponses)
    /\ \A g \in 1..Len(batches) : groupPostCount(g) <= bFailed[g] + 1
    /\ \A s \in ParSenders : \A k \in 1..pTxs[s] :
          parPostCount(s, k) <=
              Cardinality({i \in 1..Len(pOutcomes[s][k]) : pOutcomes[s][k][i] = "failure"}) + 1
    /\ bpc = "returned" => \A g \in 1..Len(batches) : groupPostCount(g) >= 1
    /\ ppc = "returned" => \A s \in ParSenders : \A k \in 1..pTxs[s] : parPostCount(s, k) >= 1

\* C9 witness: a group answered with an error element followed by a result
\* element, no transport failure anywhere, and a later group sent and
\* answered after it
C9_Witness ==
    /\ bpc = "returned"
    /\ Len(batches) = 2
    /\ bFailsLeft = MaxFundFails
    /\ Len(bResponses) = 2
    /\ bResponses[1].grp = 1
    /\ Len(bResponses[1].content) = 2
    /\ bResponses[1].content[1].error
    /\ ~bResponses[1].content[2].error
    /\ Len(txHashes) = 2 /\ Len(batchErrors) = 1

\* C10: for any non-negative batchSize and any input, generateBatches
\* terminates and returns groups whose sizes are all batchSize except possibly
\* the last, and whose concatenation is the input in its original order.
C10_BatchPartition ==
    gpc = "called" =>
        /\ gResult.outcome = "returns"
        /\ \A i \in 1..Len(gResult.batches) - 1 : Len(gResult.batches[i]) = gBatchSize
        /\ \A i \in 1..Len(gResult.batches) : Len(gResult.batches[i]) <= gBatchSize
        /\ Flatten(gResult.batches) = gItems

\* C11: for an empty input and any non-negative batchSize, 0 included,
\* generateBatches returns exactly one group, which is empty, so that
\* batchTransactions issues exactly one batch call, with an empty payload.
C11_EmptyInputOneGroup ==
    (gpc = "called" /\ gItems = <<>>) =>
        /\ gResult.outcome = "returns"
        /\ gResult.batches = << <<>> >>
        /\ LET c == loopContinue(gResult.batches, 0, <<>>)
           IN  \E r \in c.posted : c.posted = {r} /\ r.payload = <<>>

\* C12: distribute and distributeTokens go on past the allocator only with
\* at least one allocated account; when the allocator allocates none they
\* fail with errNotEnoughFunds, and then no funding transaction is signed or
\* sent and Engine.Run is never invoked.
C12_AllocationFailureFatal ==
    /\ apc \in {"allocated", "funding", "returned"} => Len(accountsToFund) > 0
    /\ apc = "errNotEnoughFunds" =>
          /\ accountsToFund = <<>>
          /\ fpc = "idle"
          /\ batches = <<>> /\ bPosts = <<>>
          /\ rpc \in {"distribute", "distributeTokens", "aborted"}
    /\ rpc = "engine" => apc \in {"returned", "fullyFunded"}

\* C12 witness: a run aborted by errNotEnoughFunds with two accounts left in
\* the shortfall set
C12_Witness ==
    /\ rpc = "aborted"
    /\ apc = "errNotEnoughFunds"
    /\ Len(shortAddresses) = 2

\* C13: a null, timed-out or failing receipt for one funding transaction is
\* not fatal.  The step of fundAccounts that handles it records exactly one
\* error, for that identifier, adds no index, and goes on to the wait for the
\* next identifier or, after the last, to the end of the loop; fundAccounts
\* never fails in its receipt loop, and once the loop is over distribute
\* returns.
C13_ReceiptFailureNonFatal ==
    /\ [](fpc # "error")
    /\ []((apc = "funding" /\ fpc = "done") => ENABLED DistributeReturn)
    /\ [][(/\ fpc = "waiting"
           /\ <<fi, fpc>>' # <<fi, fpc>>
           /\ fWaiting[1] \notin hReceiptOk')
          => /\ waitErrors' # waitErrors
             /\ SubSeq(waitErrors', 1, Len(waitErrors)) = waitErrors
             /\ Len(waitErrors') = Len(waitErrors) + 1
             /\ waitErrors'[Len(waitErrors')].hash = fWaiting[1]
             /\ fReady' = fReady
             /\ fi' = fi + 1
             /\ IF fi' < Len(txHashes')
                THEN fpc' = "waiting" /\ fWaiting' = <<txHashes'[fi' + 1]>>
                ELSE fpc' = "done"]_vars

\* C13 witness: distribute has returned after the wait for the first
\* identifier timed out and the wait for the second one succeeded
C13_Witness ==
    /\ apc = "returned"
    /\ Len(txHashes) = 2
    /\ Len(waitErrors) = 1
    /\ waitErrors[1] = [hash |-> txHashes[1], outcome |-> "timeout"]
    /\ Len(fReady) = 1

\* C14: completeness of the ready set.  When distribute has returned, every
\* allocated account whose funding transaction was accepted by the node and
\* for which a receipt with successful status was observed is in
\* readyMnemonicIndexes.
C14_ReadyComplete ==
    (rpc = "distribute" /\ apc = "returned") =>
        \A j \in 1..Len(fAccounts) :
            (acceptedByNode(fundingTxs[j]) /\ fundingTxs[j] \in hReceiptOk)
                => fAccounts[j].mnemonicIndex \in Range(readyMnemonicIndexes)

C16_ScenarioOneFunded ==
    (aMode = "native" /\ aRequired = 100 /\ aBalances = <<0, 50, 150>> /\ aSource = 120) =>
        /\ apc = "scanned" =>
              /\ Len(shortAddresses) = 2
              /\ \E a, b \in Range(shortAddresses) :
                    /\ a.mnemonicIndex = 1 /\ a.missingFunds = 100
                    /\ b.mnemonicIndex = 2 /\ b.missingFunds = 50
        /\ apc \notin {"fullyFunded", "errNotEnoughFunds"}
        /\ apc = "allocated" => (Len(accountsToFund) = 1 /\ warnsUnableToFundAll)

\* C17: after the native shortfall scan every candidate index
\* 1..requestedSubAccounts is in exactly one of the two sets: the shortfall
\* set iff its balance is below the required balance (with missingFunds =
\* required - balance > 0), the ready set iff its balance is at least the
\* required balance; no index is in both, in neither, or in a set twice.
C17_ScanPartition ==
    (aMode = "native" /\ apc = "scanned") =>
        LET n     == Len(aBalances)
            short == {shortAddresses[k].mnemonicIndex : k \in 1..Len(shortAddresses)}
            ready == Range(aReady)
        IN  /\ short \cup ready = 1..n
            /\ short \cap ready = {}
            /\ Len(shortAddresses) + Len(aReady) = n
            /\ \A i \in 1..n :
                  /\ i \in short <=> aBalances[i] < aRequired
                  /\ i \in ready <=> aBalances[i] >= aRequired
            /\ \A k \in 1..Len(shortAddresses) :
                  /\ shortAddresses[k].missingFunds =
                        aRequired - aBalances[shortAddresses[k].mnemonicIndex]
                  /\ shortAddresses[k].missingFunds > 0

\* a scan that met a short account, an account holding exactly the required
\* balance and an account holding more
C17_Witness ==
    /\ aMode = "native" /\ apc = "scanned"
    /\ aRequired = 50 /\ aBalances = <<50, 0, 150>>
    /\ aReady = <<1, 3>>
    /\ shortAddresses = <<[missingFunds |-> 50, mnemonicIndex |-> 2]>>

\* C18: in token distribution a candidate whose token balance is already at
\* least the per-account token cost is in the ready list distributeTokens
\* returns, also when other candidates were short and got funded.
C18_TokenReadyKeepsFunded ==
    (aMode = "token" /\ apc \in {"returned", "fullyFunded"}) =>
        \A index \in Range(runAccountIndexes) :
            aBalances[index] >= aRequired => index \in Range(readyMnemonicIndexes)

\* C19: fundAccounts builds exactly one funding transaction per allocated
\* account, in allocation order, each from the source account to that account
\* with value equal to the account's missingFunds, and the i-th transaction
\* (i from 0) carries nonce sourceTransactionCount + i.
C19_FundingTxsPerAccount ==
    bpc \notin {"idle", "threw", "diverged"} =>
        LET signedTxs == Flatten(batches)
        IN  /\ Len(signedTxs) = Len(fAccounts)
            /\ \A j \in 1..Len(fAccounts) :
                  /\ signedTxs[j].from = 0
                  /\ signedTxs[j].to = fAccounts[j].mnemonicIndex
                  /\ signedTxs[j].value = fAccounts[j].missingFunds
                  /\ signedTxs[j].nonce = fSourceCount + (j - 1)

\* three accounts with different needs, their transactions handed to the
\* batcher in two groups
C19_Witness ==
    /\ bpc \notin {"idle", "threw", "diverged"}
    /\ Len(fAccounts) = 3
    /\ Len(batches) = 2
    /\ Flatten(batches)[3] = [from |-> 0, to |-> fAccounts[3].mnemonicIndex,
                               value |-> fAccounts[3].missingFunds,
                               nonce |-> fSourceCount + 2]

C21_SenderAccounts ==
    spc = "returned" =>
        LET m == IF Len(sAccountIndexes) <= sNumTxs THEN Len(sAccountIndexes) ELSE sNumTxs
        IN  /\ Len(sAccounts) = m
            /\ Len(sQueried) = m
            /\ \A i \in 1..m :
                  /\ sAccounts[i].mnemonicIndex = sAccountIndexes[i]
                  /\ sAccounts[i].nonce = sTxCount[sAccountIndexes[i]]
                  /\ Cardinality({q \in 1..Len(sQueried) :
                                    sQueried[q] = sAccounts[i].mnemonicIndex}) = 1

\* three indexes out of order, two transactions: two accounts are returned
C21_Witness ==
    /\ spc = "returned"
    /\ sAccountIndexes = <<3, 1, 2>>
    /\ sNumTxs = 2
    /\ sTxCount[3] = 1 /\ sTxCount[1] = 0
    /\ sAccounts = <<senderAccount(3, 1), senderAccount(1, 0)>>

\* C22: Engine.Run returns the identifiers grouped by sender: the result
\* gives, sender by sender, the ordered list of the identifiers of that
\* sender's transactions, i.e. the identifiers of one sender stand together,
\* in the order the sender's transactions were sent.
C22_ResultGroupedBySender ==
    ppc = "returned" =>
        /\ \A a, b, c \in 1..Len(engineResult) :
              (a < b /\ b < c /\ engineResult[a][1] = engineResult[c][1])
                  => engineResult[b][1] = engineResult[a][1]
        /\ \A a, b \in 1..Len(engineResult) :
              (a < b /\ engineResult[a][1] = engineResult[b][1])
                  => engineResult[a][2] < engineResult[b][2]

\* the signed transactions produced so far, all senders together
signedSoFar == Flatten(nTxs)

\* C23: when dynamic-fee mode is requested and the fee snapshot has no
\* maxFeePerGas (or no maxPriorityFeePerGas), ConstructTransactions fails with
\* the 'Dynamic fee data not available' error before any transaction is
\* signed and before any account nonce is advanced (hence before anything is
\* sent to the node).
C23_DynamicFeeFailsFast ==
    (nDynamic /\ nFeeData # "set" /\ npc \notin {"idle", "prepare"}) =>
        /\ signedSoFar = <<>>
        /\ \A a \in 1..Len(nAccounts) : nAccounts[a].nonce = nInitial[a]
        /\ npc # "constructed"
        /\ npc = "error" => nError = "Dynamic fee data not available"

\* C24: on the ERC20 and ERC721 runtimes every operation that needs the
\* deployed contract, called before Initialize has completed, fails with
\* errRuntimeNotInitialized without a node call and without changing a nonce;
\* and in a run Initialize has completed before the first such operation.
C24_NotInitializedFailsFast ==
    /\ \A c \in 1..Len(tCalls) :
          LET nodeCallsAfter == IF c < Len(tCalls) THEN tCalls[c + 1].nodeCalls ELSE tNodeCalls
              nonceAfter     == IF c < Len(tCalls) THEN tCalls[c + 1].nonce ELSE tNonce
          IN  ~tCalls[c].contract =>
                  /\ tCalls[c].outcome = "errRuntimeNotInitialized"
                  /\ nodeCallsAfter = tCalls[c].nodeCalls
                  /\ nonceAfter = tCalls[c].nonce
    /\ tDriver = "run" => \A c \in 1..Len(tCalls) :
                              tCalls[c].contract /\ tCalls[c].outcome = "returns"
    /\ (tDriver = "run" /\ ~contract) => tCalls = <<>>

\* ConstructTransactions called while the deployment is under way, then
\* again after it: the first call fails, the second goes through
C24_Witness ==
    /\ tDriver = "any"
    /\ Len(tCalls) = 2
    /\ tCalls[1] = [op |-> "ConstructTransactions", contract |-> FALSE,
                     outcome |-> "errRuntimeNotInitialized", nodeCalls |-> 0, nonce |-> 0]
    /\ tCalls[2].op = "ConstructTransactions" /\ tCalls[2].outcome = "returns"
    /\ tNonce = 1 /\ tNodeCalls = 1

\* the POSTs of a dispatch call, all senders together
parPostTotal == SumTxs([s \in ParSenders |-> Len(pPosts[s])], Len(pTxs))

\* C25 (first part, under SpecParFair): sendTransactionsInParallelBySender
\* returns for every input and every pattern of transport failures.
C25_ParallelTerminates == <>(ppc = "returned")

\* C25 (first part): at most 3*n POSTs for n transactions, and the bound on
\* the failures of the model never withholds a failure from a POST.
C25_PostBound ==
    /\ parPostTotal <= 3 * SumTxs(pTxs, Len(pTxs))
    /\ pInflight # {} => pFailsLeft > 0

\* every transaction of both senders abandoned: 3*n POSTs
C25_PostBoundReached ==
    /\ ppc = "returned"
    /\ pTxs = <<2, 1>>
    /\ parPostTotal = 9

\* C25: the only activity of a run that never ends is the re-issue of a
\* grouped-batch call under persistent transport failure: whenever the
\* funding call is at a point it never leaves, a re-issued group is in flight.
C25_OnlyReissueNeverEnds ==
    fpc = "hung" => \E r \in bInflight : r.attempt > 1

\* C26 (ConstructTransactions of eoa.ts, which signs as it constructs): for
\* every sender account, current nonce - initial nonce = number of signed
\* transactions produced so far, also after a failure.
C26_CurrentNonceMatchesSigned ==
    \A a \in 1..Len(nAccounts) :
        nAccounts[a].nonce - nInitial[a] = Len(nTxs[a])

\* C26: at every point of a run and for every sender account,
\* current nonce - initial nonce = number of signed transactions produced so
\* far for that account, in the pipeline that signs as it constructs and in
\* the earlier one that constructs first and signs afterwards.
C26_NonceMatchesSigned ==
    /\ C26_CurrentNonceMatchesSigned
    /\ \A a \in DOMAIN eAccounts :
          eAccounts[a].nonce - eInitial[a] = Len(eSigned[a])

\* the step in which the send of the k-th transaction of sender s is abandoned
parAbandons(s, k) ==
    /\ pOutcomes[s][k] = <<"failure", "failure">>
    /\ pOutcomes'[s][k] = <<"failure", "failure", "failure">>

\* C27: in per-sender parallel mode, abandoning a transaction after its retry
\* bound does not abort the dispatch call and does not stop the sender's
\* task: the step that abandons transaction k POSTs the sender's transaction
\* k+1 if there is one, the call returns only when every task is through its
\* list, and the other senders' requests, positions, retry counts and records
\* are untouched; when the call has returned every transaction was POSTed.
C27_AbandonContinues ==
    /\ [][\A s \in ParSenders : \A k \in 1..pTxs[s] :
            parAbandons(s, k) =>
                /\ ppc' \in {"running", "returned"}
                /\ ppc' = "returned" <=> \A o \in ParSenders : pCur'[o] > pTxs[o]
                /\ pCur'[s] = k + 1
                /\ IF k < pTxs[s]
                   THEN /\ {r \in pInflight' : r.sender = s} = {parRequest(s, k + 1, 1)}
                        /\ pPosts'[s] = Append(pPosts[s], k + 1)
                   ELSE /\ {r \in pInflight' : r.sender = s} = {}
                        /\ pPosts'[s] = pPosts[s]
                /\ \A o \in ParSenders \ {s} :
                      /\ {r \in pInflight' : r.sender = o} = {r \in pInflight : r.sender = o}
                      /\ pCur'[o] = pCur[o]
                      /\ pRetries'[o] = pRetries[o]
                      /\ pPosts'[o] = pPosts[o]
                      /\ pOutcomes'[o] = pOutcomes[o]
                /\ pTxHashes' = pTxHashes
                /\ pBatchErrors' = pBatchErrors]_vars
    /\ [](ppc = "returned" =>
             \A s \in ParSenders : \A k \in 1..pTxs[s] : parPostCount(s, k) >= 1)

\* the first transaction of sender 1 abandoned, its second one answered
\* afterwards, and the transaction of sender 2 answered
C27_Witness ==
    /\ ppc = "returned"
    /\ pTxs = <<2, 1>>
    /\ pOutcomes[1] = << <<"failure", "failure", "failure">>, <<"response">> >>
    /\ pOutcomes[2] = << <<"response">> >>
    /\ pPosts[1] = <<1, 1, 1, 2>>
    /\ pTxHashes = << <<2, 1>>, <<1, 2>> >>

\* the shortfall entries of the cycle: those still on the heap and those
\* handed to the funding step
costShortEntries == shortAddresses \o accountsToFund

\* C28: the native per-account required balance computed by
\* calculateRuntimeCosts is totalTx * (gasPrice * gasEstimate + inherentValue)
\* * 10; the scan uses it as the threshold (an account is short iff its
\* balance is below it) and the funding brings a short account up to it (its
\* missingFunds, the value of its funding transaction, is the difference).
C28_RequiredBalance ==
    LET required == cTotalTx * (cGasPrice * cGasEstimate + cValue) * 10
    IN  apc \notin {"idle", "costs"} =>
          /\ cCosts.subAccount = required
          /\ aRequired = required
          /\ apc # "scan" =>
                /\ \A i \in 1..Len(aBalances) :
                      /\ (\E e \in Range(costShortEntries) : e.mnemonicIndex = i)
                             <=> aBalances[i] < required
                      /\ i \in Range(aReady) <=> aBalances[i] >= required
                /\ \A e \in Range(costShortEntries) :
                      aBalances[e.mnemonicIndex] + e.missingFunds = required
                /\ LET txs == signFundingTxs(accountsToFund, 0)
                   IN  \A j \in 1..Len(txs) :
                           aBalances[txs[j].to] + txs[j].value = required

\* 2 transactions at gas price 2, estimate 2 and value 1: 100 required, the
\* accounts holding 50 and 10 are both short and both funded
C28_Witness ==
    /\ apc = "allocated"
    /\ cTotalTx = 2 /\ cGasPrice = 2 /\ cGasEstimate = 2 /\ cValue = 1
    /\ cCosts.subAccount = 100
    /\ aBalances = <<50, 10>>
    /\ Len(accountsToFund) = 2
    /\ \E j \in 1..2 : accountsToFund[j] = distributeAccount(90, 2)

\* the order in which a heap gives up its entries
RECURSIVE popOrder(_)
popOrder(heap) ==
    IF heap = <<>> THEN <<>>
    ELSE LET p == heapPop(heap) IN <<p.item>> \o popOrder(p.heap)

\* C29: the native allocator returns exactly a prefix of the pop order of the
\* scanned heap.  Every entry it took was taken with the tracked source
\* balance (the source balance less the missingFunds of the entries before
\* it) strictly greater than accDistributionCost; it stops at the first step
\* where the tracked balance is not greater or the heap is empty; what it did
\* not take is still on the heap, in pop order, and is not in its result.
C29_AllocatorPrefix ==
    (aMode = "native" /\ apc \in {"alloc", "allocated", "errNotEnoughFunds"}) =>
        LET scanned == scanNative(1, Len(aBalances), aRequired, <<>>, <<>>).heap
            full    == popOrder(scanned)
            taken   == Len(accountsToFund)
        IN  /\ taken <= Len(full)
            /\ accountsToFund = SubSeq(full, 1, taken)
            /\ popOrder(shortAddresses) = SubSeq(full, taken + 1, Len(full))
            /\ distributorBalance = aSource - SumMissingFunds(accountsToFund)
            /\ \A k \in 0..(taken - 1) :
                  aSource - SumMissingFunds(SubSeq(full, 1, k)) > aDistCost
            /\ apc # "alloc" =>
                  (taken = Len(full) \/ distributorBalance <= aDistCost)
            /\ \A e \in Range(shortAddresses) :
                  \A f \in Range(accountsToFund) : e.mnemonicIndex # f.mnemonicIndex

\* three short accounts, the first two of the pop order allocated, the third
\* left on the heap because the tracked balance ran out
C29_Witness ==
    /\ aMode = "native"
    /\ apc = "allocated"
    /\ Len(accountsToFund) = 2
    /\ Len(shortAddresses) = 1
    /\ distributorBalance <= aDistCost

\* C30: funding receipts are awaited one at a time in the order of the
\* identifier list.  At most one wait is pending, and it is the wait for the
\* identifier at the loop index; the list only grows at its end, so positions
\* keep their identifiers; the index moves by one, and only in the step in
\* which the pending wait for that position resolves (receipt, null or
\* timeout), which is also the only step that starts the next wait; and the
\* loop ends only with the index at the end of the list.
C30_ReceiptsInOrder ==
    /\ [](/\ Len(fWaiting) <= 1
          /\ fpc = "waiting" => (fi < Len(txHashes) /\ fWaiting = <<txHashes[fi + 1]>>)
          /\ fpc # "waiting" => fWaiting = <<>>)
    /\ [][/\ Len(txHashes') >= Len(txHashes)
          /\ SubSeq(txHashes', 1, Len(txHashes)) = txHashes
          /\ fi' \in {fi, fi + 1}
          /\ fi' = fi + 1 =>
                /\ fpc = "waiting"
                /\ \/ fWaiting[1] \in hReceiptOk'
                   \/ /\ Len(waitErrors') = Len(waitErrors) + 1
                      /\ waitErrors'[Len(waitErrors')].hash = fWaiting[1]
          /\ (fWaiting' # fWaiting /\ fWaiting' # <<>>) =>
                \/ fWaiting = <<>> /\ fi' = 0
                \/ fi' = fi + 1
          /\ (fpc = "waiting" /\ fpc' = "done") => fi' = Len(txHashes')]_vars

\* three funding transactions: the wait for the first identifier timed out,
\* the waits for the second and the third were made afterwards and succeeded
C30_Witness ==
    /\ fpc = "done"
    /\ Len(txHashes) = 3
    /\ fi = 3
    /\ waitErrors = <<[hash |-> txHashes[1], outcome |-> "timeout"]>>
    /\ hReceiptOk = {txHashes[2], txHashes[3]}
    /\ Len(fReady) = 2

\* C31: each shortfall entry is consumed at most once by the allocator: no
\* account is twice in the list of accounts to fund, none is both in that
\* list and still in the shortfall collection, and the funding transactions
\* signed for the list have pairwise different recipients.
C31_AllocatedOnce ==
    LET txs == signFundingTxs(accountsToFund, 0)
    IN  /\ \A i, j \in 1..Len(accountsToFund) :
              i # j => accountsToFund[i].mnemonicIndex # accountsToFund[j].mnemonicIndex
        /\ \A i \in 1..Len(accountsToFund) : \A j \in 1..Len(shortAddresses) :
              accountsToFund[i].mnemonicIndex # shortAddresses[j].mnemonicIndex
        /\ \A i, j \in 1..Len(txs) : i # j => txs[i].to # txs[j].to

\* three short accounts with the same need, all three allocated
C31_Witness ==
    /\ aMode = "native"
    /\ apc = "allocated"
    /\ aBalances = <<0, 0, 0>>
    /\ Len(accountsToFund) = 3
    /\ {accountsToFund[i].mnemonicIndex : i \in 1..3} = {1, 2, 3}

\* C32: when batchTransactions has returned no request issued by it is still
\* outstanding, and nothing is appended to the returned txHashes or to
\* batchErrors after the return.
C32_ReturnedListFinal ==
    /\ [](bpc = "returned" => bInflight = {})
    /\ [][bpc = "returned" => (txHashes' = txHashes /\ batchErrors' = batchErrors)]_vars

\* C33: the identifier list returned by batchTransactions is in input order:
\* the identifiers of two transactions stand in the list in the order of the
\* transactions in the input (the signing order, which is the nonce order),
\* also when a group was re-issued after a transport failure.
C33_IdentifiersInInputOrder ==
    bpc = "returned" =>
        \A i, j \in 1..Len(txHashes) : i < j => txHashes[i].nonce < txHashes[j].nonce

\* the errors recorded for the funding transaction of account index x: the
\* per-element errors of the batch calls and the errors of the receipt waits
fundingErrorsFor(x) ==
    Cardinality({e \in 1..Len(batchErrors) : batchErrors[e].message.to = x})
        + Cardinality({w \in 1..Len(waitErrors) : waitErrors[w].hash.to = x})

\* how often index x was added to the ready set by fundAccounts
fundingReadyFor(x) == Cardinality({r \in 1..Len(fReady) : fReady[r] = x})

\* C34: funding accounting.  When fundAccounts has finished, the indexes it
\* added to the ready set, the per-element batch errors and the receipt-wait
\* errors add up to the number of allocated accounts.
C34_FundingCounts ==
    fpc = "done" =>
        Len(fReady) + Len(batchErrors) + Len(waitErrors) = Len(fAccounts)

\* C34: funding accounting.  When fundAccounts has finished, every allocated
\* account either had its index added to the ready set or had exactly one
\* error recorded for it, never both and never neither; hence the indexes
\* added, the batch errors and the wait errors add up to the number of
\* allocated accounts.
C34_FundingAccounted ==
    /\ C34_FundingCounts
    /\ fpc = "done" =>
          \A j \in 1..Len(fAccounts) :
              LET x == fAccounts[j].mnemonicIndex
              IN  \/ fundingReadyFor(x) = 1 /\ fundingErrorsFor(x) = 0
                  \/ fundingReadyFor(x) = 0 /\ fundingErrorsFor(x) = 1

\* account index holds the per-account token cost: it held it at the scan, or
\* its token funding transaction was accepted and got a successful receipt
tokenReady(index) ==
    \/ aBalances[index] >= aRequired
    \/ \E j \in 1..Len(fAccounts) :
          /\ fAccounts[j].mnemonicIndex = index
          /\ acceptedByNode(fundingTxs[j])
          /\ fundingTxs[j] \in hReceiptOk

\* C35: in ERC20 mode every account index handed to Engine.Run is
\* token-ready: it already held the per-account token cost or its token
\* funding transaction obtained a successful receipt.
C35_EngineSendersTokenReady ==
    (rMode = "ERC20" /\ aMode = "token" /\ rpc = "engine") =>
        \A index \in Range(runAccountIndexes) : tokenReady(index)

\* C36: the ready set of Distributor.distribute holds no index twice and only
\* indexes in 1..requestedSubAccounts, never the index 0 of the source
\* account, whatever the scan, the allocation, the dispatch and the receipts
\* did.
C36_ReadySetWellFormed ==
    aMode = "native" =>
        /\ \A i, j \in 1..Len(readyMnemonicIndexes) :
              i # j => readyMnemonicIndexes[i] # readyMnemonicIndexes[j]
        /\ \A i \in 1..Len(readyMnemonicIndexes) :
              /\ readyMnemonicIndexes[i] \in 1..Len(aBalances)
              /\ readyMnemonicIndexes[i] # 0

\* distribute has returned both candidates as ready, both after a funding
\* transaction with a successful receipt
C36_Witness ==
    /\ aMode = "native"
    /\ rpc = "distribute"
    /\ apc = "returned"
    /\ aReady = <<>>
    /\ Len(fReady) = 2
    /\ Range(readyMnemonicIndexes) = {1, 2}

\* the answers of one kind the node has given, in the order the tasks
\* received them
parAnswered(isError) == SelectSeq(pResponses, LAMBDA r : r.error = isError)

\* C37: under every interleaving of the per-sender tasks no entry of the
\* shared txHashes and batchErrors is lost or duplicated: txHashes holds
\* exactly one identifier per send answered without an error and
\* batchErrors exactly one message per send answered with an error, each in
\* the order the answers were received, and no transaction has more than one
\* entry in the two collections together.
C37_SharedAppendsExact ==
    LET ok      == parAnswered(FALSE)
        bad     == parAnswered(TRUE)
        hashTxs == Range(pTxHashes)
        errTxs  == {pBatchErrors[e].message : e \in 1..Len(pBatchErrors)}
    IN  /\ pTxHashes = [i \in 1..Len(ok) |-> ok[i].tx]
        /\ pBatchErrors = [i \in 1..Len(bad) |-> [message |-> bad[i].tx]]
        /\ Cardinality(hashTxs) = Len(pTxHashes)
        /\ Cardinality(errTxs) = Len(pBatchErrors)
        /\ hashTxs \cap errTxs = {}

\* two senders, their answers interleaved: two identifiers and one error,
\* sender 2 answered first
C37_Witness ==
    /\ ppc = "returned"
    /\ pTxs = <<2, 1>>
    /\ pTxHashes = << <<2, 1>>, <<1, 2>> >>
    /\ pBatchErrors = <<[message |-> <<1, 1>>]>>

\* the candidates of the scan: 1..requestedSubAccounts for distribute, the
\* list handed to the constructor for distributeTokens
scanCandidates == IF aMode = "native" THEN Iota(Len(aBalances)) ELSE runAccountIndexes

\* the scan finds no candidate below the required balance
noneShort == \A i \in 1..Len(scanCandidates) : aBalances[scanCandidates[i]] >= aRequired

\* C38: when the shortfall scan finds no under-funded account, distribute
\* (and distributeTokens) return all candidate indexes as ready and do
\* nothing else: the allocator is not entered, so the source balance is not
\* read, no account is allocated, and fundAccounts is not called, so no
\* funding transaction is signed or sent and no nonce of the source is used.
C38_FullyFundedNoEffect ==
    (noneShort /\ apc \notin {"idle", "scan"}) =>
        /\ apc \in {"scanned", "fullyFunded"}
        /\ shortAddresses = <<>>
        /\ readyMnemonicIndexes = scanCandidates
        /\ distributorBalance = 0
        /\ accountsToFund = <<>>
        /\ fpc = "idle"
        /\ batches = <<>> /\ bPosts = <<>> /\ txHashes = <<>>
        /\ rpc = "engine" => runAccountIndexes = scanCandidates

\* both candidates hold more than the required balance, the source holds
\* funds, distribute has returned and the run has gone on
C38_Witness ==
    /\ aMode = "native"
    /\ apc = "fullyFunded"
    /\ rpc = "engine"
    /\ aBalances = <<150, 150>>
    /\ aSource = 300
    /\ runAccountIndexes = <<1, 2>>

\* the transactions signTransactions gives to the wallet of account a: its
\* slice, and for the last account the remainder after it
signerShare(a) ==
    senderTransactions(eRaw, a, Len(eAccounts))
        \o (IF a = Len(eAccounts) THEN remainingTxns(eRaw, Len(eAccounts)) ELSE <<>>)

\* the transactions the wallet of account a has been asked to sign so far
signerTried(a) ==
    SubSeq(senderTransactions(eRaw, a, Len(eAccounts)), 1, eCur[a])
        \o (IF a = Len(eAccounts)
            THEN SubSeq(remainingTxns(eRaw, Len(eAccounts)), 1, eRem) ELSE <<>>)

\* C39: in the construct-then-sign flow, ConstructTransactions and
\* Signer.signTransactions use the same partition of the transaction list:
\* the share the signer gives to an account is exactly the transactions that
\* carry that account as sender, floor(numTxs/numAccounts) of them and the
\* remainder for the last account, with the nonces initial, initial+1, ...
\* in this order; every transaction lies in exactly one share; the wallet of
\* an account is asked for its share in increasing nonce order, whatever the
\* interleaving of the accounts, and what it has signed are the transactions
\* it was asked for (all of them when no signature was rejected), so no
\* transaction is signed twice or by another account.
C39_SamePartition ==
    epc \in {"sign", "remainder", "returned"} =>
        LET n   == Len(eAccounts)
            per == eNumTx \div n
            rem == eNumTx % n
        IN  /\ Len(eRaw) = eNumTx
            /\ \A a \in 1..n :
                  /\ Len(signerShare(a)) = per + (IF a = n THEN rem ELSE 0)
                  /\ \A k \in 1..Len(signerShare(a)) :
                        signerShare(a)[k] = [from |-> a, nonce |-> eInitial[a] + k - 1]
                  /\ Len(signerTried(a)) <= Len(signerShare(a))
                  /\ \A k \in 1..Len(signerTried(a)) :
                        signerTried(a)[k] = [from |-> a, nonce |-> eInitial[a] + k - 1]
                  /\ epc = "returned" => signerTried(a) = signerShare(a)
                  /\ \A k \in 1..Len(eSigned[a]) :
                        /\ eSigned[a][k].from = a
                        /\ \E j \in 1..Len(signerTried(a)) : signerTried(a)[j] = eSigned[a][k]
                  /\ \A j, k \in 1..Len(eSigned[a]) :
                        j < k => eSigned[a][j].nonce < eSigned[a][k].nonce
                  /\ eSignErrors = 0 => eSigned[a] = signerTried(a)
            /\ \A t \in 1..Len(eRaw) :
                  Cardinality({x \in (1..n) \X (1..eNumTx) :
                                 /\ x[2] <= Len(signerShare(x[1]))
                                 /\ signerShare(x[1])[x[2]] = eRaw[t]}) = 1

\* two accounts and three transactions, all signed: one by the first account,
\* two (its slice and the remainder) by the last
C39_Witness ==
    /\ epc = "returned"
    /\ Len(eAccounts) = 2
    /\ eNumTx = 3
    /\ eSignErrors = 0
    /\ eSigned[1] = <<[from |-> 1, nonce |-> eInitial[1]]>>
    /\ eSigned[2] = <<[from |-> 2, nonce |-> eInitial[2]], [from |-> 2, nonce |-> eInitial[2] + 1]>>
    /\ eInitial = <<1, 0>>


=============================================================================
